---- MODULE Spec2Model ----
(***************************************************************************)
(* Frame reader/writer subsystem of pkg/serializer/frame: the high-level   *)
(* Reader and Writer (size/count enforcement, sanitation, empty-frame      *)
(* skipping) on top of the closableResource (close-once, close-on-error),  *)
(* over the low-level YAML/JSON/single/err readers and writers.            *)
(*                                                                         *)
(* One instance is modelled at a time: `role` says whether it is a Reader  *)
(* or a Writer.  Every call runs under the resource's mutex                *)
(* (closer.go:46-47, 94-95), so each call is one atomic action.            *)
(***************************************************************************)
EXTENDS Integers, Sequences, FiniteSets, TLC

\* ------------------------------------------------------------------ bounds

\* Largest MaxFrames option explored (options are 1..MaxMaxFrames).
MaxMaxFrames == 2
\* The MaxFrameSize option of the modelled instance, in bytes.
MaxFrameSize == 4
\* A long stream's leading run of blank frames is empty or ends within
\* MaxPadGap frames of a total-attempt limit, MaxFrames * TotalFactor.
MaxPadGap == 1
\* Longest tail of frames following that run in a long stream.
MaxTail == 3
\* Longest short stream.
MaxShort == 2
\* ReadFrame / WriteFrame calls explored on one instance.
MaxCalls == 4
\* WriteFrame calls of one instance during which the sink falls short or
\* fails.
MaxFaults == 1
\* Explicit Close calls explored on one instance.
MaxCloseCalls == 2
\* Goroutines calling one instance concurrently.
MaxSanLen == 5
MaxOpts == 2
MaxListLen == 2
MaxRoundTrip == 2
MaxLimit == 2
MaxSrcLen == 3
MaxBufLen == 2
MaxLimitedCalls == 4
MaxPriorCalls == 1
MaxOptValue == 2
NumCallers == 2
\* ReadFrame / WriteFrame calls they make between them.
MaxLockCalls == 3
\* Calls made on a low-level Reader or Writer.
MaxLowCalls == 3

\* --------------------------------------------------------------- constants

\* maxTotalFrames = opts.MaxFrames * 10
TotalFactor == 10

\* ------------------------------------------------------------------ errors

ErrNil == "nil"
EOF == "io.EOF"
ErrClosedPipe == "io.ErrClosedPipe"
ErrShortWrite == "io.ErrShortWrite"
FrameSizeOverflowErr == "FrameSizeOverflowErr"
FrameCountOverflowErr == "FrameCountOverflowErr"
ErrUnsupportedContentType == "ErrUnsupportedContentType"
ErrNoProgress == "io.ErrNoProgress"
\* An error of the underlying io.Reader / io.Writer / io.Closer.
SourceErr == "sourceErr"
SinkErr == "sinkErr"
CloseErr == "closeErr"

\* ------------------------------------------------------------- content types

ContentTypeYAML == "yaml"
ContentTypeJSON == "json"
otherCT == "other"
ContentTypes == {ContentTypeYAML, ContentTypeJSON, otherCT}

\* ------------------------------------------------------------------ bytes

\* The size of a bufio.Reader's buffer.
bufioSize == 4096
\* The bytes newYAMLReader allows on top of MaxFrameSize.
yamlLimitSlack == 4
\* The room io.ReadAll starts with.
readAllSize == 512
\* The size k8sStreamingReaderImpl.buf starts with, unless MaxFrameSize is
\* smaller, and the byte a new buffer is filled with.
defaultBufSize == 1024
zeroByte == "\\0"

SP == " "
NL == "\n"
DASH == "-"

IsSpace(c) == c \in {SP, NL}

RECURSIVE TrimLeft(_)
TrimLeft(s) ==
    IF s = <<>> THEN s
    ELSE IF IsSpace(Head(s)) THEN TrimLeft(Tail(s)) ELSE s

RECURSIVE TrimRight(_)
TrimRight(s) ==
    IF s = <<>> THEN s
    ELSE IF IsSpace(s[Len(s)]) THEN TrimRight(SubSeq(s, 1, Len(s) - 1)) ELSE s

\* bytes.TrimSpace
TrimSpace(s) == TrimRight(TrimLeft(s))

\* bytes.TrimPrefix
TrimPrefix(s, p) ==
    IF Len(s) >= Len(p) /\ SubSeq(s, 1, Len(p)) = p
    THEN SubSeq(s, Len(p) + 1, Len(s)) ELSE s

\* bytes.TrimSuffix
TrimSuffix(s, p) ==
    IF Len(s) >= Len(p) /\ SubSeq(s, Len(s) - Len(p) + 1, Len(s)) = p
    THEN SubSeq(s, 1, Len(s) - Len(p)) ELSE s

\* The YAML document separator token, "---".
yamlSepToken == <<DASH, DASH, DASH>>

\* The for loop of sanitizeYAMLFrame: trim, and go round again while the
\* frame keeps shrinking; a non-empty result gets one trailing newline.
RECURSIVE sanitizeYAMLLoop(_, _)
sanitizeYAMLLoop(frame, prevLen) ==
    LET f == TrimSuffix(TrimPrefix(TrimSpace(frame), yamlSepToken), yamlSepToken)
    IN  IF Len(f) < prevLen THEN sanitizeYAMLLoop(f, Len(f))
        ELSE IF Len(f) # 0 THEN Append(f, NL) ELSE f

sanitizeYAMLFrame_OnePass(frame) ==
    LET f == TrimSuffix(TrimPrefix(TrimSpace(frame), yamlSepToken), yamlSepToken)
    IN  IF Len(f) # 0 THEN Append(f, NL) ELSE f
sanitizeYAMLFrame(frame) == sanitizeYAMLLoop(frame, Len(frame))

sanitizeJSONFrame(frame) == TrimSpace(frame)

\* DefaultSanitizer.Sanitize; it never returns an error.
Sanitize_Identity(ct, frame) == frame
Sanitize(ct, frame) ==
    CASE ct = ContentTypeYAML -> sanitizeYAMLFrame(frame)
      [] ct = ContentTypeJSON -> sanitizeJSONFrame(frame)
      [] OTHER -> frame

\* ------------------------------------------------------------ sample input

\* A frame that sanitizes to empty for YAML and JSON (a blank line).
blankFrame == <<NL>>
\* A frame one byte larger than MaxFrameSize.
bigFrame == [i \in 1..(MaxFrameSize + 1) |-> "a"]
\* A one-byte document.
docFrame == <<"a">>
\* A frame of exactly MaxFrameSize bytes.
fullFrame == [i \in 1..MaxFrameSize |-> "a"]
\* A frame one byte smaller than MaxFrameSize: with its newline, a YAML
\* document of exactly MaxFrameSize bytes.
nearFrame == [i \in 1..(MaxFrameSize - 1) |-> "a"]
\* Frames the streams are drawn from.
SampleFrames == {blankFrame, docFrame, nearFrame, fullFrame, bigFrame}
\* Frames handed to WriteFrame: those, a frame of MaxFrameSize bytes and a
\* bare YAML separator.
\* The frame of no bytes, which the tests write once their frames run out.
emptyFrame == <<>>
WriteInputs ==
    {blankFrame, docFrame, bigFrame, fullFrame, yamlSepToken, emptyFrame}

RECURSIVE Pad(_)
Pad(n) == IF n = 0 THEN <<>> ELSE <<blankFrame>> \o Pad(n - 1)

SeqsUpTo(S, n) == UNION {[1..k -> S] : k \in 0..n}

\* Lengths of a long stream's leading run of blank frames.
PadSizes ==
    {0} \cup {m * TotalFactor - k : m \in 1..MaxMaxFrames, k \in 0..MaxPadGap}

\* Short streams, of any sample frames.
ShortStreams == SeqsUpTo(SampleFrames, MaxShort)

\* Long streams: a run of blank frames, then up to MaxTail blank or
\* one-byte frames.
LongStreams ==
    {Pad(n) \o t : n \in PadSizes, t \in SeqsUpTo({blankFrame, docFrame}, MaxTail)}

RECURSIVE Flatten(_)
Flatten(fs) == IF fs = <<>> THEN <<>> ELSE Head(fs) \o Flatten(Tail(fs))

\* The bytes of a YAML source: its documents, each ending in a newline, with
\* the separator line "---\n" between them and, when lead is set, before the
\* first one, as the YAML Writer puts it.
yamlSep == yamlSepToken \o <<NL>>

\* s starts with a separator line.
StartsWithSepLine(s) == Len(s) >= Len(yamlSep) /\ SubSeq(s, 1, Len(yamlSep)) = yamlSep

yamlDoc(f) == IF f # <<>> /\ f[Len(f)] = NL THEN f ELSE f \o <<NL>>

RECURSIVE yamlJoin(_)
yamlJoin(fs) ==
    IF fs = <<>> THEN <<>>
    ELSE IF Len(fs) = 1 THEN yamlDoc(fs[1])
    ELSE yamlDoc(Head(fs)) \o yamlSep \o yamlJoin(Tail(fs))

yamlRawData(fs, lead) == (IF lead THEN yamlSep ELSE <<>>) \o yamlJoin(fs)

\* ------------------------------------------------------- low-level readers

\* DefaultFactory.lowlevelFromReadCloser: which low-level Reader is built.
lowlevelFromReadCloser_SingleFirst(ct, maxFrames) ==
    IF maxFrames = 1 THEN "singleReader"
    ELSE CASE ct = ContentTypeYAML -> "yamlReader"
           [] ct = ContentTypeJSON -> "streamingReader"
           [] OTHER -> "errReader"
lowlevelFromReadCloser_Degrading(ct, maxFrames) ==
    CASE ct = ContentTypeYAML -> "yamlReader"
      [] ct = ContentTypeJSON -> "streamingReader"
      [] OTHER -> "singleReader"
lowlevelFromReadCloser(ct, maxFrames) ==
    CASE ct = ContentTypeYAML -> "yamlReader"
      [] ct = ContentTypeJSON -> "streamingReader"
      [] OTHER -> IF maxFrames = 1 THEN "singleReader" ELSE "errReader"

\* A low-level reader's state: the frames still in the source (stream), the
\* error the source is stuck at ("nil" while it has none; lowErr), and
\* singleReader.hasBeenRead.  srcEnd is what the source returns once its data
\* is used up.  The YAML reader is followed byte by byte, through its
\* IoLimitedReader (src, frameBytes, pbuf) and its bufio.Reader (bufd, berr).

Min(a, b) == IF a <= b THEN a ELSE b

\* F applied to the value of x, worked out once.
With(x, F(_)) == CHOOSE y \in {F(v) : v \in {x}} : TRUE

\* Read(p) of an io.Reader, with len(p) = n, that still holds src: it hands
\* over the first bytes of src, as many as fit in p and no more than
\* out.most, and returns the error out.err.
srcReadAs(src, n, out) ==
    LET k == Min(Min(n, Len(src)), out.most)
    IN  [src |-> SubSeq(src, k + 1, Len(src)), data |-> SubSeq(src, 1, k),
         err |-> out.err]

\* What the YAML Reader's underlying io.Reader does with a Read: it hands
\* over all the bytes it has, and returns srcEnd once it has none.
wholeRead(src, srcEnd) ==
    [most |-> Len(src), err |-> IF src = <<>> THEN srcEnd ELSE ErrNil]

\* Read(p) of the YAML Reader's underlying io.Reader, with len(p) = n: all
\* the bytes it has, up to n, and srcEnd once it has none.
srcRead(src, srcEnd, n) == srcReadAs(src, n, wholeRead(src, srcEnd))

\* ioLimitedReader.Read when frameBytes is over maxFrameSize.
overflowed_Once(lo) ==
    [lo |-> [lo EXCEPT !.frameBytes = 0], data |-> <<>>,
     err |-> FrameSizeOverflowErr, reads |-> 0, asked |-> 0, got |-> <<>>,
     under |-> ErrNil]
overflowed(lo) ==
    [lo |-> lo, data |-> <<>>, err |-> FrameSizeOverflowErr, reads |-> 0,
     asked |-> 0, got |-> <<>>, under |-> ErrNil]

\* The length b is left with once Read has shrunk it to bytesLeft.
shrink_Not(blen, bytesLeft) == blen
shrink(blen, bytesLeft) == Min(blen, bytesLeft)

\* ioLimitedReader.Read(b) with len(b) = blen, over an io.Reader that does
\* out with the Read it receives.  lo.src is what the source still holds,
\* lo.frameBytes the counter and lo.pbuf the persistent buffer (l.buf).
\* data is b[:n], what the caller gets to see: the bytes flushed from l.buf
\* are put in front of those read, but only the number of those read is
\* returned.  reads tells how many Reads the source received, asked the
\* length of the slice it was given, got the bytes it handed over and under
\* the error it returned.
limitedRead(lo, maxFrameSize, blen, out) ==
    IF lo.frameBytes > maxFrameSize
    THEN overflowed(lo)
    ELSE IF lo.frameBytes = maxFrameSize
    THEN With(srcReadAs(lo.src, 1, out), LAMBDA r :
           [lo |-> [lo EXCEPT !.src = r.src,
                              !.pbuf = lo.pbuf \o r.data,
                              !.frameBytes = lo.frameBytes + Len(r.data)],
            data |-> <<>>,
            err |-> IF r.err # ErrNil THEN r.err
                    ELSE IF r.data = <<>> THEN ErrNoProgress
                    ELSE FrameSizeOverflowErr,
            reads |-> 1, asked |-> 1, got |-> r.data, under |-> r.err])
    ELSE LET b == shrink(blen, maxFrameSize - lo.frameBytes)
             m == Min(Len(lo.pbuf), b)
         IN  With(srcReadAs(lo.src, b - m, out), LAMBDA r :
               [lo |-> [lo EXCEPT !.src = r.src,
                                  !.pbuf = SubSeq(lo.pbuf, m + 1, Len(lo.pbuf)),
                                  !.frameBytes = lo.frameBytes + Len(r.data)],
                data |-> SubSeq(SubSeq(lo.pbuf, 1, m) \o r.data, 1, Len(r.data)),
                err |-> r.err,
                reads |-> 1, asked |-> b - m, got |-> r.data, under |-> r.err])

\* ioLimitedReader.Read(b) with len(b) = blen, over the YAML source.
ioLimitedRead(lo, maxFrameSize, blen, srcEnd) ==
    limitedRead(lo, maxFrameSize, blen, wholeRead(lo.src, srcEnd))

\* ioLimitedReader.ResetCounter
ResetCounter_Clearing(lo) == [lo EXCEPT !.frameBytes = 0, !.pbuf = <<>>]
ResetCounter(lo) == [lo EXCEPT !.frameBytes = 0]

\* bufio.Reader.fill over the limited reader: lo.bufd is the buffered data
\* not yet read and lo.berr the pending error (b.err).  Reading nothing
\* without an error a hundred times over ends in io.ErrNoProgress.
bufioFill(lo, maxFrameSize, srcEnd) ==
    With(ioLimitedRead(lo, maxFrameSize, bufioSize - Len(lo.bufd), srcEnd),
         LAMBDA r :
           [r.lo EXCEPT !.bufd = lo.bufd \o r.data,
                        !.berr = IF r.err # ErrNil THEN r.err
                                 ELSE IF r.data = <<>> THEN ErrNoProgress
                                 ELSE ErrNil])

\* The index of the first newline of s, 0 if it has none.
IndexNL(s) ==
    IF \E i \in 1..Len(s) : s[i] = NL
    THEN CHOOSE i \in 1..Len(s) : s[i] = NL /\ \A j \in 1..(i - 1) : s[j] # NL
    ELSE 0

\* bufio.Reader.ReadSlice('\n'); the buffer is never full here.
RECURSIVE bufioReadSlice(_, _, _)
bufioReadSlice(lo, maxFrameSize, srcEnd) ==
    With(IndexNL(lo.bufd), LAMBDA i :
      IF i # 0
      THEN [lo |-> [lo EXCEPT !.bufd = SubSeq(lo.bufd, i + 1, Len(lo.bufd))],
            line |-> SubSeq(lo.bufd, 1, i), err |-> ErrNil]
      ELSE IF lo.berr # ErrNil
      THEN [lo |-> [lo EXCEPT !.bufd = <<>>, !.berr = ErrNil],
            line |-> lo.bufd, err |-> lo.berr]
      ELSE With(bufioFill(lo, maxFrameSize, srcEnd), LAMBDA filled :
             bufioReadSlice(filled, maxFrameSize, srcEnd)))

\* bufio.Reader.ReadLine: the error that comes with a partial line is
\* dropped, and the line is returned without its newline.
bufioReadLine(lo, maxFrameSize, srcEnd) ==
    With(bufioReadSlice(lo, maxFrameSize, srcEnd), LAMBDA r :
      IF r.line = <<>>
      THEN r
      ELSE [lo |-> r.lo, line |-> TrimSuffix(r.line, <<NL>>), err |-> ErrNil])

\* yaml.LineReader.Read: one line, always with a newline appended.
lineRead(lo, maxFrameSize, srcEnd) ==
    With(bufioReadLine(lo, maxFrameSize, srcEnd), LAMBDA r :
      [lo |-> r.lo, line |-> r.line \o <<NL>>, err |-> r.err])

\* A line that starts with "---" and has only whitespace after it.
isSeparatorLine(line) ==
    /\ Len(line) >= Len(yamlSepToken)
    /\ SubSeq(line, 1, Len(yamlSepToken)) = yamlSepToken
    /\ TrimRight(SubSeq(line, Len(yamlSepToken) + 1, Len(line))) = <<>>

\* yaml.YAMLReader.Read: lines are gathered in buffer until a separator line
\* or io.EOF ends the document.  A separator line met while the buffer is
\* empty is gathered as any other line.
RECURSIVE yamlRead(_, _, _, _)
yamlRead(lo, buffer, maxFrameSize, srcEnd) ==
    With(lineRead(lo, maxFrameSize, srcEnd), LAMBDA r :
      IF r.err # ErrNil /\ r.err # EOF
      THEN [lo |-> r.lo, frame |-> <<>>, err |-> r.err]
      ELSE IF isSeparatorLine(r.line) /\ buffer # <<>>
      THEN [lo |-> r.lo, frame |-> buffer, err |-> ErrNil]
      ELSE IF r.err = EOF
      THEN IF buffer # <<>>
           THEN [lo |-> r.lo, frame |-> buffer, err |-> ErrNil]
           ELSE [lo |-> r.lo, frame |-> <<>>, err |-> EOF]
      ELSE yamlRead(r.lo, buffer \o r.line, maxFrameSize, srcEnd))

\* The final size check of yamlReader.ReadFrame.
yamlFrameSizeOverflows_Off(frame) == FALSE
yamlFrameSizeOverflows(frame) == Len(frame) > MaxFrameSize

\* yamlReader.ReadFrame: one document of the YAMLReader, read through a
\* limited reader that allows MaxFrameSize + 4 bytes, then the counter reset
\* and the final size check.  lo.stream follows the documents still to come.
yamlReadFrame(lo, srcEnd) ==
    With(yamlRead(lo, <<>>, MaxFrameSize + yamlLimitSlack, srcEnd), LAMBDA r :
      IF r.err # ErrNil
      THEN [lo |-> r.lo, frame |-> <<>>, err |-> r.err]
      ELSE LET l1 == [ResetCounter(r.lo) EXCEPT
                                  !.stream = IF r.lo.stream = <<>> THEN <<>>
                                             ELSE Tail(r.lo.stream)]
           IN  IF yamlFrameSizeOverflows(r.frame)
               THEN [lo |-> l1, frame |-> <<>>, err |-> FrameSizeOverflowErr]
               ELSE [lo |-> l1, frame |-> r.frame, err |-> ErrNil])

\* newK8sStreamingReader: buf, of min(maxFrameSize, defaultBufSize) zero
\* bytes.
newBuf(maxFrameSize) == [i \in 1..Min(maxFrameSize, defaultBufSize) |-> zeroByte]

\* What d.buf holds once d.reader.Read(d.buf[0:]) has put data in it: data,
\* as far as it fits, over what was there.
bufAfterRead(buf, data) ==
    LET n == Min(Len(data), Len(buf))
    IN  SubSeq(data, 1, n) \o SubSeq(buf, n + 1, Len(buf))

\* streamingReader.ReadFrame: the IoLimitedReader overflows on a frame larger
\* than MaxFrameSize, and its counter is reset only after a successful frame.
\* k8sStreamingReaderImpl.Read reads every frame into d.buf from its start
\* (lo.buf) and returns d.buf[:base] (lo.base): the frame returned is that
\* part of the buffer, not a copy of it.  MaxFrameSize being at most
\* defaultBufSize, the buffer is as large as a frame may be and is never
\* replaced by a larger one.
streamingReadFrame(lo, srcEnd) ==
    IF lo.lowErr # ErrNil
    THEN [lo |-> lo, frame |-> <<>>, err |-> lo.lowErr]
    ELSE IF lo.stream = <<>>
    THEN [lo |-> [lo EXCEPT !.lowErr = srcEnd], frame |-> <<>>, err |-> srcEnd]
    ELSE LET f == Head(lo.stream)
         IN  IF Len(f) > MaxFrameSize
             THEN [lo |-> [lo EXCEPT !.lowErr = FrameSizeOverflowErr,
                                     !.buf = bufAfterRead(lo.buf, f)],
                   frame |-> <<>>, err |-> FrameSizeOverflowErr]
             ELSE [lo |-> [lo EXCEPT !.stream = Tail(lo.stream),
                                     !.buf = bufAfterRead(lo.buf, f),
                                     !.base = Len(f)],
                   frame |-> f, err |-> ErrNil]

\* io.ReadAll of the IoLimitedReader: Read into the room left in b until a
\* Read returns an error, and return what was read, with that error unless
\* it is io.EOF.
RECURSIVE ioReadAll(_, _, _, _)
ioReadAll(lo, maxFrameSize, srcEnd, b) ==
    With(ioLimitedRead(lo, maxFrameSize, readAllSize - Len(b), srcEnd), LAMBDA r :
      IF r.err # ErrNil
      THEN [lo |-> r.lo, frame |-> b \o r.data,
            err |-> IF r.err = EOF THEN ErrNil ELSE r.err]
      ELSE ioReadAll(r.lo, maxFrameSize, srcEnd, b \o r.data))

\* singleReader.ReadFrame: io.ReadAll of the size-limited source, once.  The
\* source has been read from then on: nothing of lo.stream is still to come.
singleReadFrame_Again(lo, srcEnd) ==
    With(ioReadAll(lo, MaxFrameSize, srcEnd, <<>>), LAMBDA r :
      [lo |-> [r.lo EXCEPT !.hasBeenRead = TRUE, !.stream = <<>>],
       frame |-> r.frame, err |-> r.err])
singleReadFrame(lo, srcEnd) ==
    IF ~lo.hasBeenRead
    THEN With(ioReadAll(lo, MaxFrameSize, srcEnd, <<>>), LAMBDA r :
           [lo |-> [r.lo EXCEPT !.hasBeenRead = TRUE, !.stream = <<>>],
            frame |-> r.frame, err |-> r.err])
    ELSE [lo |-> lo, frame |-> <<>>, err |-> EOF]

\* errReader.ReadFrame
errReadFrame(lo, srcEnd) ==
    [lo |-> lo, frame |-> <<>>, err |-> ErrUnsupportedContentType]

\* r.read.ReadFrame(ctx): dispatch on the low-level reader built.  lo.calls
\* counts the calls the low-level reader has received.
lowReadFrame(kind, lo, srcEnd) ==
    LET l1 == [lo EXCEPT !.calls = lo.calls + 1]
    IN  CASE kind = "yamlReader" -> yamlReadFrame(l1, srcEnd)
          [] kind = "streamingReader" -> streamingReadFrame(l1, srcEnd)
          [] kind = "singleReader" -> singleReadFrame(l1, srcEnd)
          [] OTHER -> errReadFrame(l1, srcEnd)

\* ------------------------------------------------------ high-level reader

\* newHighlevelReader: maxTotalFrames
maxTotalFrames(cfg) == cfg.MaxFrames * TotalFactor

\* readFrame's guard on the total number of low-level reads.
totalFrameCountOverflows_Off(hr, cfg) == hr.totalFrameCount > maxTotalFrames(cfg)
totalFrameCountOverflows(hr, cfg) == hr.totalFrameCount >= maxTotalFrames(cfg)

\* readFrame's test for a frame to skip.
frameIsEmpty_Never(frame) == FALSE
frameIsEmpty(frame) == Len(frame) = 0

\* The test on successfulFrameCount, in ReadFrame and after readFrame's
\* increment.
successfulFrameCountOverflows_Off(count, cfg) == count > cfg.MaxFrames + 1
successfulFrameCountOverflows(count, cfg) == count > cfg.MaxFrames

\* highlevelReader.readFrame.  hr is the reader's state: its counters
\* (successfulFrameCount, totalFrameCount) and its low-level reader lo.
RECURSIVE readFrame(_, _)
readFrame(hr, cfg) ==
    IF totalFrameCountOverflows(hr, cfg)
    THEN [hr |-> hr, frame |-> <<>>, err |-> FrameCountOverflowErr]
    ELSE LET rd == lowReadFrame(cfg.kind, hr.lo, cfg.srcEnd)
             h1 == [hr EXCEPT !.lo = rd.lo,
                              !.totalFrameCount = hr.totalFrameCount + 1]
         IN  IF rd.err # ErrNil
             THEN [hr |-> h1, frame |-> <<>>, err |-> rd.err]
             ELSE LET frame == Sanitize(cfg.ct, rd.frame)
                  IN  IF frameIsEmpty(frame)
                      THEN readFrame(h1, cfg)
                      ELSE LET h2 == [h1 EXCEPT !.successfulFrameCount =
                                                  h1.successfulFrameCount + 1]
                           IN  IF successfulFrameCountOverflows(h2.successfulFrameCount, cfg)
                               THEN [hr |-> h2, frame |-> <<>>,
                                     err |-> FrameCountOverflowErr]
                               ELSE [hr |-> h2, frame |-> frame, err |-> ErrNil]

\* The closure highlevelReader.ReadFrame hands to accessResource.
readAccessFn_NoCheck(hr, cfg) == readFrame(hr, cfg)
readAccessFn(hr, cfg) ==
    IF successfulFrameCountOverflows(hr.successfulFrameCount, cfg)
    THEN [hr |-> hr, frame |-> <<>>, err |-> FrameCountOverflowErr]
    ELSE readFrame(hr, cfg)

\* ------------------------------------------------------- low-level writers

\* DefaultFactory.newFromWriteCloser: which low-level Writer is built.
newFromWriteCloser(ct, maxFrames) ==
    CASE ct = ContentTypeYAML -> "delegatingWriter"
      [] ct = ContentTypeJSON -> "delegatingWriter"
      [] OTHER -> IF maxFrames = 1 THEN "singleWriter" ELSE "errWriter"

\* What the underlying io.Writer does with one Write: how much of the buffer
\* it accepts and the error it reports.
SinkOutcomes == [part : {"all", "allButOne", "none"}, err : {ErrNil, SinkErr}]

\* The Write that accepts the whole buffer and reports no error.
sinkOK == [part |-> "all", err |-> ErrNil]

Accepted(frame, out) ==
    CASE out.part = "all" -> Len(frame)
      [] out.part = "allButOne" -> IF Len(frame) = 0 THEN 0 ELSE Len(frame) - 1
      [] OTHER -> 0

\* catchShortWrite without its test.
catchShortWrite_Blind(n, err, frame) == err
catchShortWrite(n, err, frame) ==
    IF n < Len(frame) /\ err = ErrNil THEN ErrShortWrite ELSE err

\* The framer in front of the sink: YAMLFramer writes "---\n" before a frame.
FramePrefix(ct) == IF ct = ContentTypeYAML THEN yamlSepToken \o <<NL>> ELSE <<>>

\* The io.Writer the delegatingWriter writes to.  For JSON it is the sink
\* itself.  For YAML it is the YAMLFramer's writer, which writes "---\n" to
\* the sink, returns (0, err) if that Write reports an error err, and
\* otherwise writes the data and returns what that second Write returns.
\* outs[1] is what the sink does with the separator, outs[2] with the data.
\* The result is the sink afterwards, n and err, writes: the number of
\* Writes the sink received, and full: whether the sink accepted the whole
\* of the data without an error.
framerWrite_DataFirst(sink, ct, data, outs) ==
    [sink |-> SubSeq(data, 1, Accepted(data, outs[2])) \o sink,
     n |-> Accepted(data, outs[2]), err |-> outs[2].err, writes |-> 1,
     full |-> (Accepted(data, outs[2]) = Len(data) /\ outs[2].err = ErrNil)]
framerWrite(sink, ct, data, outs) ==
    LET pre == FramePrefix(ct)
        s1 == sink \o SubSeq(pre, 1, Accepted(pre, outs[1]))
        n == Accepted(data, outs[2])
    IN  IF pre # <<>> /\ outs[1].err # ErrNil
        THEN [sink |-> s1, n |-> 0, err |-> outs[1].err, writes |-> 1,
              full |-> FALSE]
        ELSE [sink |-> s1 \o SubSeq(data, 1, n), n |-> n, err |-> outs[2].err,
              writes |-> IF pre = <<>> THEN 1 ELSE 2,
              full |-> (n = Len(data) /\ outs[2].err = ErrNil)]

\* A low-level writer's state: the bytes in the sink, singleWriter's
\* hasBeenWritten, the number of WriteFrame calls it received (calls), the
\* number of Writes the sink received (sinkCalls) and the number of frames
\* the sink accepted whole and without error (fullWrites).

\* delegatingWriter.WriteFrame
delegatingWriteFrame(lo, ct, frame, outs) ==
    LET w == framerWrite(lo.sink, ct, frame, outs)
    IN  [lo |-> [lo EXCEPT !.sink = w.sink,
                           !.sinkCalls = lo.sinkCalls + w.writes,
                           !.fullWrites = IF w.full THEN lo.fullWrites + 1
                                          ELSE lo.fullWrites],
         err |-> catchShortWrite(w.n, w.err, frame)]

\* singleWriter.WriteFrame
singleWriteFrame_Again(lo, ct, frame, outs) ==
    LET n == Accepted(frame, outs[2])
        full == (n = Len(frame) /\ outs[2].err = ErrNil)
    IN  [lo |-> [lo EXCEPT !.sink = lo.sink \o SubSeq(frame, 1, n),
                           !.hasBeenWritten = TRUE,
                           !.sinkCalls = lo.sinkCalls + 1,
                           !.fullWrites = IF full THEN lo.fullWrites + 1
                                          ELSE lo.fullWrites],
         err |-> catchShortWrite(n, outs[2].err, frame)]
singleWriteFrame(lo, ct, frame, outs) ==
    IF ~lo.hasBeenWritten
    THEN LET n == Accepted(frame, outs[2])
             full == (n = Len(frame) /\ outs[2].err = ErrNil)
         IN  [lo |-> [lo EXCEPT !.sink = lo.sink \o SubSeq(frame, 1, n),
                                !.hasBeenWritten = TRUE,
                                !.sinkCalls = lo.sinkCalls + 1,
                                !.fullWrites = IF full THEN lo.fullWrites + 1
                                               ELSE lo.fullWrites],
              err |-> catchShortWrite(n, outs[2].err, frame)]
    ELSE [lo |-> lo, err |-> ErrClosedPipe]

\* errWriter.WriteFrame
errWriteFrame(lo, ct, frame, outs) ==
    [lo |-> lo, err |-> ErrUnsupportedContentType]

\* w.writer.WriteFrame(ctx, frame): dispatch on the low-level writer built.
lowWriteFrame(kind, lo, ct, frame, outs) ==
    LET l1 == [lo EXCEPT !.calls = lo.calls + 1]
    IN  CASE kind = "delegatingWriter" -> delegatingWriteFrame(l1, ct, frame, outs)
          [] kind = "singleWriter" -> singleWriteFrame(l1, ct, frame, outs)
          [] OTHER -> errWriteFrame(l1, ct, frame, outs)

\* ------------------------------------------------------ high-level writer

\* The closure highlevelWriter.WriteFrame hands to accessResource.  hw is the
\* writer's state: frameCount and its low-level writer lo.
frameSizeOverflows_Off(frame) == Len(frame) >= MaxFrameSize
frameSizeOverflows(frame) == Len(frame) > MaxFrameSize

writeAccessFn(hw, cfg, frame, outs) ==
    IF frameSizeOverflows(frame)
    THEN [hw |-> hw, err |-> FrameSizeOverflowErr]
    ELSE IF hw.frameCount >= cfg.MaxFrames
    THEN [hw |-> hw, err |-> FrameCountOverflowErr]
    ELSE LET f == Sanitize(cfg.ct, frame)
         IN  IF Len(f) = 0
             THEN [hw |-> hw, err |-> ErrNil]
             ELSE LET wr == lowWriteFrame(cfg.kind, hw.lo, cfg.ct, f, outs)
                  IN  [hw |-> [hw EXCEPT !.lo = wr.lo,
                                         !.frameCount = IF wr.err = ErrNil
                                                        THEN hw.frameCount + 1
                                                        ELSE hw.frameCount],
                       err |-> wr.err]

\* ------------------------------------------------------- closableResource

\* The low-level Reader's / Writer's Close: errReader and errWriter embed a
\* nopCloser, the others close the underlying io.Closer.
lowCloseIsNop(kind) == kind \in {"errReader", "errWriter"}

\* close without its guard against closing twice.
close_NoClosedCheck(c, cfg, cerr) ==
    LET c1 == [c EXCEPT !.closed = TRUE]
    IN  IF ~cfg.hasCloser \/ lowCloseIsNop(cfg.kind)
        THEN [c |-> c1, err |-> ErrNil]
        ELSE [c |-> [c1 EXCEPT !.closeCount = c.closeCount + 1], err |-> cerr]

\* close without its test of hasCloser.
close_Owning(c, cfg, cerr) ==
    IF c.closed
    THEN [c |-> c, err |-> ErrNil]
    ELSE LET c1 == [c EXCEPT !.closed = TRUE]
         IN  IF lowCloseIsNop(cfg.kind)
             THEN [c |-> c1, err |-> ErrNil]
             ELSE [c |-> [c1 EXCEPT !.closeCount = c.closeCount + 1], err |-> cerr]

\* closableResourceImpl.close.  c is [closed, closeCount], closeCount being
\* the number of Close calls the underlying io.Closer has received; cerr is
\* what that io.Closer returns.
close(c, cfg, cerr) ==
    IF c.closed
    THEN [c |-> c, err |-> ErrNil]
    ELSE LET c1 == [c EXCEPT !.closed = TRUE]
         IN  IF ~cfg.hasCloser
             THEN [c |-> c1, err |-> ErrNil]
             ELSE IF lowCloseIsNop(cfg.kind)
             THEN [c |-> c1, err |-> ErrNil]
             ELSE [c |-> [c1 EXCEPT !.closeCount = c.closeCount + 1], err |-> cerr]

\* accessResource without its guard on a closed resource.
accessResource_NoClosedCheck(c, cfg, fnErr, cerr) ==
    IF fnErr # ErrNil /\ cfg.closeOnError
    THEN LET cl == close(c, cfg, cerr)
         IN  [c |-> cl.c, ran |-> TRUE, err |-> fnErr, closeErr |-> cl.err]
    ELSE [c |-> c, ran |-> TRUE, err |-> fnErr, closeErr |-> ErrNil]

\* accessResource closing on every error but io.EOF.
accessResource_KeepOpenOnEOF(c, cfg, fnErr, cerr) ==
    IF c.closed
    THEN [c |-> c, ran |-> FALSE, err |-> ErrClosedPipe, closeErr |-> ErrNil]
    ELSE IF fnErr # ErrNil /\ fnErr # EOF /\ cfg.closeOnError
    THEN LET cl == close(c, cfg, cerr)
         IN  [c |-> cl.c, ran |-> TRUE, err |-> fnErr, closeErr |-> cl.err]
    ELSE [c |-> c, ran |-> TRUE, err |-> fnErr, closeErr |-> ErrNil]

\* accessResource looking at c.closed only after it has run the function.
accessResource_ClosedCheckLast(c, cfg, fnErr, cerr) ==
    IF c.closed
    THEN [c |-> c, ran |-> TRUE, err |-> ErrClosedPipe, closeErr |-> ErrNil]
    ELSE IF fnErr # ErrNil /\ cfg.closeOnError
    THEN LET cl == close(c, cfg, cerr)
         IN  [c |-> cl.c, ran |-> TRUE, err |-> fnErr, closeErr |-> cl.err]
    ELSE [c |-> c, ran |-> TRUE, err |-> fnErr, closeErr |-> ErrNil]

\* closableResourceImpl.accessResource, given the error fnErr the access
\* function returns when it is run: ran tells whether it was run, err is the
\* error returned and closeErr the close error combined into it.
accessResource(c, cfg, fnErr, cerr) ==
    IF c.closed
    THEN [c |-> c, ran |-> FALSE, err |-> ErrClosedPipe, closeErr |-> ErrNil]
    ELSE IF fnErr # ErrNil /\ cfg.closeOnError
    THEN LET cl == close(c, cfg, cerr)
         IN  [c |-> cl.c, ran |-> TRUE, err |-> fnErr, closeErr |-> cl.err]
    ELSE [c |-> c, ran |-> TRUE, err |-> fnErr, closeErr |-> ErrNil]

\* ------------------------------------------------------------------ state

VARIABLES
    role,        \* "reader" or "writer": what the instance is
    cfg,         \* its options and construction: ct, MaxFrames, closeOnError,
                 \* hasCloser, kind (the low-level implementation), srcEnd,
                 \* lead (the YAML source starts with a separator)
    stream0,     \* the frames of the source the Reader was built on
    res,         \* closableResourceImpl: closed, closeCount
    hr,          \* highlevelReader: the counters and the low-level reader
    hw,          \* highlevelWriter: frameCount and the low-level writer
    calls,       \* ReadFrame / WriteFrame calls made so far
    closeCalls,  \* explicit Close calls made so far
    last,        \* the last call: op, err, frame, closeErr, wasClosed, outs
    eofReturned, \* a ReadFrame call has returned io.EOF
    delivered,   \* frames ReadFrame has returned to its callers so far
    faults,      \* WriteFrame calls during which the sink fell short or failed
    mux,         \* closableResourceImpl.mux: its holder (0: unlocked), and how
                 \* many times it was acquired and a call ran under it
    pc,          \* where each concurrent caller is in its call
    l,           \* an ioLimitedReader used on its own: reader, buf,
                 \* maxFrameSize, frameBytes, and what its calls returned
    san,         \* a frame handed to the Sanitizer on its own, and the results
    opts,        \* a ReaderOptions / WriterOptions that options are applied to
    fl           \* a FrameList read or written by ReadFrameList / WriteFrameList

vars == <<role, cfg, stream0, res, hr, hw, calls, closeCalls, last, eofReturned,
          delivered, faults, mux, pc, l, san, opts, fl>>

\* What is used without a Reader or Writer, or on top of one.
units == <<l, san, opts, fl>>

\* None of them is in use.
unused == [op |-> "none"]
NoUnits == l = unused /\ san = unused /\ opts = unused /\ fl = unused

Callers == 1..NumCallers

CloseOutcomes == {ErrNil, CloseErr}
ReaderKinds == {"yamlReader", "streamingReader", "singleReader", "errReader"}
SourceEnds == {EOF, SourceErr}

ReaderConfigs ==
    {c \in [ct : ContentTypes, MaxFrames : 1..MaxMaxFrames, closeOnError : BOOLEAN,
            hasCloser : BOOLEAN, kind : ReaderKinds, srcEnd : SourceEnds,
            lead : BOOLEAN] :
        /\ c.kind = lowlevelFromReadCloser(c.ct, c.MaxFrames)
        /\ c.lead => c.ct = ContentTypeYAML}

WriterConfigs ==
    {[ct |-> ct, MaxFrames |-> m, closeOnError |-> coe, hasCloser |-> hc,
      kind |-> newFromWriteCloser(ct, m), srcEnd |-> EOF, lead |-> FALSE] :
        ct \in ContentTypes, m \in 1..MaxMaxFrames, coe \in BOOLEAN,
        hc \in BOOLEAN}

\* The Readers explored: every configuration on the short streams, and the
\* YAML and JSON readers of a closable source that ends in io.EOF on the
\* long ones.
FramedConfigs ==
    {c \in ReaderConfigs : /\ c.ct \in {ContentTypeYAML, ContentTypeJSON}
                           /\ c.hasCloser /\ c.srcEnd = EOF /\ ~c.lead}

ReaderInputs ==
    (ReaderConfigs \X ShortStreams) \cup (FramedConfigs \X LongStreams)

WriterInputs == WriterConfigs \X {<<>>}

\* newHighlevelReader / newHighlevelWriter over newClosableResource, for the
\* Readers of readerInputs and the Writers.
InitOf(readerInputs) ==
    /\ role \in {"reader", "writer"}
    /\ \E in \in IF role = "reader" THEN readerInputs ELSE WriterInputs :
         /\ cfg = in[1]
         /\ stream0 = in[2]
    /\ res = [closed |-> FALSE, closeCount |-> 0]
    /\ hr = [successfulFrameCount |-> 0, totalFrameCount |-> 0,
             lo |-> [stream |-> stream0, lowErr |-> ErrNil, hasBeenRead |-> FALSE,
                     calls |-> 0,
                     src |-> IF role = "reader" /\ cfg.kind = "yamlReader"
                             THEN yamlRawData(stream0, cfg.lead)
                             ELSE IF role = "reader" /\ cfg.kind = "singleReader"
                             THEN Flatten(stream0)
                             ELSE <<>>,
                     bufd |-> <<>>, berr |-> ErrNil, frameBytes |-> 0,
                     pbuf |-> <<>>,
                     buf |-> IF role = "reader" /\ cfg.kind = "streamingReader"
                             THEN newBuf(MaxFrameSize) ELSE <<>>,
                     base |-> 0]]
    /\ hw = [frameCount |-> 0,
             lo |-> [sink |-> <<>>, hasBeenWritten |-> FALSE, calls |-> 0,
                     sinkCalls |-> 0, fullWrites |-> 0]]
    /\ calls = 0
    /\ closeCalls = 0
    /\ last = [op |-> "new", err |-> ErrNil, frame |-> <<>>, closeErr |-> ErrNil,
               wasClosed |-> FALSE, outs |-> <<sinkOK, sinkOK>>]
    /\ eofReturned = FALSE
    /\ delivered = 0
    /\ faults = 0
    /\ mux = [holder |-> 0, acquired |-> 0, served |-> 0]
    /\ pc = [c \in Callers |-> [at |-> "idle", op |-> "none", ticket |-> 0,
                                 got |-> <<>>]]
    /\ NoUnits

Init == InitOf(ReaderInputs)

\* highlevelReader.ReadFrame, while fewer than maxCalls calls were made.
ReadFrameWithin(maxCalls) ==
    /\ role = "reader"
    /\ calls < maxCalls
    /\ \E cerr \in CloseOutcomes :
         LET fn == readAccessFn(hr, cfg)
             ar == accessResource(res, cfg, fn.err, cerr)
         IN  /\ res' = ar.c
             /\ hr' = IF ar.ran THEN fn.hr ELSE hr
             /\ last' = [op |-> "ReadFrame", err |-> ar.err,
                         frame |-> IF ar.ran /\ ar.err = ErrNil THEN fn.frame ELSE <<>>,
                         closeErr |-> ar.closeErr, wasClosed |-> res.closed,
                         outs |-> <<sinkOK, sinkOK>>]
             /\ eofReturned' = (eofReturned \/ ar.err = EOF)
             /\ delivered' = IF ar.err = ErrNil THEN delivered + 1 ELSE delivered
    /\ calls' = calls + 1
    /\ UNCHANGED <<role, cfg, stream0, hw, closeCalls, faults>>

ReadFrame == ReadFrameWithin(MaxCalls) /\ UNCHANGED <<mux, pc, units>>

\* What the sink may do during WriteFrame(frame): any outcome for each Write
\* it receives, the separator's (YAML only) and the data's, while it is
\* within MaxFaults.  A call that does not reach the sink leaves it nothing
\* to choose.
SinkChoices(frame) ==
    IF res.closed \/ faults >= MaxFaults
       \/ writeAccessFn(hw, cfg, frame, <<sinkOK, sinkOK>>).hw.lo.sinkCalls
              = hw.lo.sinkCalls
    THEN {<<sinkOK, sinkOK>>}
    ELSE IF FramePrefix(cfg.ct) = <<>>
    THEN {sinkOK} \X SinkOutcomes
    ELSE SinkOutcomes \X SinkOutcomes

\* highlevelWriter.WriteFrame, while fewer than maxCalls calls were made.
WriteFrameWithin(maxCalls) ==
    /\ role = "writer"
    /\ calls < maxCalls
    /\ \E frame \in WriteInputs, cerr \in CloseOutcomes :
       \E outs \in SinkChoices(frame) :
         LET fn == writeAccessFn(hw, cfg, frame, outs)
             ar == accessResource(res, cfg, fn.err, cerr)
         IN  /\ res' = ar.c
             /\ hw' = IF ar.ran THEN fn.hw ELSE hw
             /\ last' = [op |-> "WriteFrame", err |-> ar.err, frame |-> frame,
                         closeErr |-> ar.closeErr, wasClosed |-> res.closed,
                         outs |-> outs]
             /\ faults' = IF outs = <<sinkOK, sinkOK>> THEN faults ELSE faults + 1
    /\ calls' = calls + 1
    /\ UNCHANGED <<role, cfg, stream0, hr, closeCalls, eofReturned, delivered>>

WriteFrame == WriteFrameWithin(MaxCalls) /\ UNCHANGED <<mux, pc, units>>

\* closableResourceImpl.Close, reached from highlevelReader.Close and
\* highlevelWriter.Close: what it does under the mutex.
CloseLocked ==
    /\ closeCalls < MaxCloseCalls
    /\ \E cerr \in CloseOutcomes :
         LET cl == close(res, cfg, cerr)
         IN  /\ res' = cl.c
             /\ last' = [op |-> "Close", err |-> cl.err, frame |-> <<>>,
                         closeErr |-> ErrNil, wasClosed |-> res.closed,
                         outs |-> <<sinkOK, sinkOK>>]
    /\ closeCalls' = closeCalls + 1
    /\ UNCHANGED <<role, cfg, stream0, hr, hw, calls, eofReturned, delivered,
                   faults>>

Close == CloseLocked /\ UNCHANGED <<mux, pc, units>>

Next == ReadFrame \/ WriteFrame \/ Close

Spec == Init /\ [][Next]_vars

\* The Readers and Writers of a content type that is neither YAML nor JSON
\* with MaxFrames other than 1, called often enough to use up the Reader's
\* 10 * MaxFrames low-level reads.
UnsupportedCalls == TotalFactor * MaxMaxFrames + 2

InitUnsupported ==
    /\ Init
    /\ cfg.ct = otherCT /\ cfg.MaxFrames # 1
    /\ stream0 = <<>>

ReadFrameUnsupported == ReadFrameWithin(UnsupportedCalls) /\ UNCHANGED <<mux, pc, units>>
WriteFrameUnsupported == WriteFrameWithin(UnsupportedCalls) /\ UNCHANGED <<mux, pc, units>>

NextUnsupported == ReadFrameUnsupported \/ WriteFrameUnsupported \/ Close

SpecUnsupported == InitUnsupported /\ [][NextUnsupported]_vars

\* ------------------------------------------- the low-level readers and writers

\* The low-level Reader or Writer of an instance is called directly, or, for
\* a Writer, through the high-level one that wraps it: one or the other,
\* from the first call on.
InitLowLevel == InitOf(ReaderConfigs \X ShortStreams)

\* r.read.ReadFrame(ctx), called on the low-level Reader itself.
LowReadFrame ==
    /\ role = "reader"
    /\ calls < MaxLowCalls
    /\ \E rd \in {lowReadFrame(cfg.kind, hr.lo, cfg.srcEnd)} :
         /\ hr' = [hr EXCEPT !.lo = rd.lo]
         /\ last' = [op |-> "lowReadFrame", err |-> rd.err, frame |-> rd.frame,
                     closeErr |-> ErrNil, wasClosed |-> FALSE,
                     outs |-> <<sinkOK, sinkOK>>]
    /\ calls' = calls + 1
    /\ UNCHANGED <<role, cfg, stream0, res, hw, closeCalls, eofReturned,
                   delivered, faults, mux, pc, units>>

\* w.writer.WriteFrame(ctx, frame), called on the low-level Writer itself.
LowWriteFrame ==
    /\ role = "writer"
    /\ last.op \in {"new", "lowWriteFrame"}
    /\ calls < MaxLowCalls
    /\ \E frame \in WriteInputs, outs \in SinkOutcomes \X SinkOutcomes :
         /\ outs # <<sinkOK, sinkOK>> => faults < MaxFaults
         /\ FramePrefix(cfg.ct) = <<>> => outs[1] = sinkOK
         /\ \E wr \in {lowWriteFrame(cfg.kind, hw.lo, cfg.ct, frame, outs)} :
              /\ hw' = [hw EXCEPT !.lo = wr.lo]
              /\ last' = [op |-> "lowWriteFrame", err |-> wr.err, frame |-> frame,
                          closeErr |-> ErrNil, wasClosed |-> FALSE, outs |-> outs]
         /\ faults' = IF outs = <<sinkOK, sinkOK>> THEN faults ELSE faults + 1
    /\ calls' = calls + 1
    /\ UNCHANGED <<role, cfg, stream0, res, hr, closeCalls, eofReturned,
                   delivered, mux, pc, units>>

\* highlevelWriter.WriteFrame on a Writer whose low-level Writer is not
\* called directly.
WrappedWriteFrame ==
    /\ last.op \in {"new", "WriteFrame"}
    /\ WriteFrameWithin(MaxLowCalls)
    /\ UNCHANGED <<mux, pc, units>>

NextLowLevel == LowReadFrame \/ LowWriteFrame \/ WrappedWriteFrame

SpecLowLevel == InitLowLevel /\ [][NextLowLevel]_vars

\* ------------------------------------------------------ concurrent callers

\* The calls above are whole calls, taken one at a time.  Here NumCallers
\* goroutines call one instance: each call locks the mutex, runs under it and
\* unlocks it (accessResource and Close: c.mux.Lock(); defer c.mux.Unlock()).

\* c.mux.Lock() returns only while no one holds the mutex.
muxCanLock_Always(m) == TRUE
muxCanLock(m) == m.holder = 0

\* The calls made so far, those in flight included.
started(op) ==
    (IF op = "Close" THEN closeCalls ELSE calls)
    + Cardinality({c \in Callers : pc[c].at \in {"waiting", "held"}
                                   /\ pc[c].op = op})

\* The calls a goroutine may make: ReadFrame or WriteFrame, and Close.
CallOps ==
    {op \in {IF role = "reader" THEN "ReadFrame" ELSE "WriteFrame"} :
        started(op) < MaxLockCalls}
    \cup {op \in {"Close"} : started(op) < MaxCloseCalls}

\* Goroutine c calls ReadFrame, WriteFrame or Close, and is at c.mux.Lock().
muxCall(c) ==
    /\ pc[c].at = "idle"
    /\ \E op \in CallOps :
         pc' = [pc EXCEPT ![c] = [@ EXCEPT !.at = "waiting", !.op = op]]
    /\ UNCHANGED <<role, cfg, stream0, res, hr, hw, calls, closeCalls, last,
                   eofReturned, delivered, faults, mux, units>>

\* c.mux.Lock() in accessResource or Close returns to goroutine c.
muxLock(c) ==
    /\ pc[c].at = "waiting"
    /\ muxCanLock(mux)
    /\ pc' = [pc EXCEPT ![c] = [@ EXCEPT !.at = "held",
                                         !.ticket = mux.acquired + 1]]
    /\ mux' = [mux EXCEPT !.holder = c, !.acquired = mux.acquired + 1]
    /\ UNCHANGED <<role, cfg, stream0, res, hr, hw, calls, closeCalls, last,
                   eofReturned, delivered, faults, units>>

\* Whether closing the resource from within accessResource, whose caller
\* holds the mutex, locks the mutex: it does not, accessResource calls
\* c.close and not c.Close.
closeOnErrorLocks_Again(op, wasClosed, isClosed) ==
    op # "Close" /\ ~wasClosed /\ isClosed
closeOnErrorLocks(op, wasClosed, isClosed) == FALSE

\* The call of goroutine c, run once it holds the mutex; got lists which of
\* the frames returned went to c.  A call that locked the mutex it holds
\* would wait for it.
lockedCall(c) ==
    /\ pc[c].at = "held"
    /\ CASE pc[c].op = "ReadFrame" -> ReadFrameWithin(MaxLockCalls)
         [] pc[c].op = "WriteFrame" -> WriteFrameWithin(MaxLockCalls)
         [] OTHER -> CloseLocked
    /\ pc' = [pc EXCEPT ![c] = [@ EXCEPT !.at = IF closeOnErrorLocks(pc[c].op,
                                                       res.closed, res'.closed)
                                                 THEN "waiting" ELSE "done",
                                         !.got = IF delivered' = delivered THEN @
                                                 ELSE Append(@, delivered')]]
    /\ mux' = [mux EXCEPT !.served = mux.served + 1]
    /\ UNCHANGED units

\* The deferred c.mux.Unlock() of goroutine c.
muxUnlock(c) ==
    /\ pc[c].at = "done"
    /\ pc' = [pc EXCEPT ![c] = [@ EXCEPT !.at = "idle"]]
    /\ mux' = [mux EXCEPT !.holder = 0]
    /\ UNCHANGED <<role, cfg, stream0, res, hr, hw, calls, closeCalls, last,
                   eofReturned, delivered, faults, units>>

\* The instances the goroutines call: the Writers, and the Readers of the
\* streams of blank and small documents and of the somewhat longer streams
\* of small and full-size documents, without a leading separator, over a
\* closable stream that ends in io.EOF.
LockStreams ==
    SeqsUpTo({blankFrame, docFrame}, MaxShort)
        \cup SeqsUpTo({docFrame, fullFrame}, MaxShort + 1)

InitLock ==
    /\ InitOf(ReaderConfigs \X LockStreams)
    /\ cfg.hasCloser /\ cfg.srcEnd = EOF /\ ~cfg.lead

Start == \E c \in Callers : muxCall(c)
Lock == \E c \in Callers : muxLock(c)
Call == \E c \in Callers : lockedCall(c)
Unlock == \E c \in Callers : muxUnlock(c)

NextLock == Start \/ Lock \/ Call \/ Unlock

SpecLock == InitLock /\ [][NextLock]_vars

\* The same goroutines on the JSON and single-shot Readers of an empty and
\* of a one-document stream and on the JSON Writers that close on error.
\* While the mutex stays free, one of the goroutines at c.mux.Lock() gets
\* it; a call that runs under the mutex returns (each underlying I/O call
\* returns); the deferred Unlock runs.
FairStreams == SeqsUpTo({docFrame}, 1)

InitLockFair ==
    /\ InitOf(ReaderConfigs \X FairStreams)
    /\ cfg.hasCloser /\ cfg.srcEnd = EOF /\ ~cfg.lead
    /\ role = "reader" => cfg.ct # ContentTypeYAML
    /\ role = "writer" =>
           cfg.ct = ContentTypeJSON /\ cfg.MaxFrames = 1 /\ cfg.closeOnError

FairLock == WF_vars(Lock) /\ WF_vars(Call) /\ WF_vars(Unlock)

SpecLockFair == InitLockFair /\ [][NextLock]_vars /\ FairLock

\* --------------------------------------------------- the units on their own

\* No Reader or Writer is in use.
instance == <<role, cfg, stream0, res, hr, hw, calls, closeCalls, last,
              eofReturned, delivered, faults, mux, pc>>

NoInstance ==
    /\ role = "none" /\ cfg = unused /\ stream0 = <<>>
    /\ res = unused /\ hr = unused /\ hw = unused
    /\ calls = 0 /\ closeCalls = 0 /\ last = unused
    /\ eofReturned = FALSE /\ delivered = 0 /\ faults = 0
    /\ mux = unused /\ pc = <<>>

\* ------------------------------------------------------------ the Sanitizer

\* The bytes the frames handed to the Sanitizer are made of: a letter, the
\* dash of the separator token, a space and a newline.
SanBytes == {"a", DASH, SP, NL}

SanFrames == SeqsUpTo(SanBytes, MaxSanLen)

\* A frame of any content type is about to be sanitized.
InitSanitize ==
    /\ NoInstance
    /\ l = unused /\ opts = unused /\ fl = unused
    /\ \E ct \in ContentTypes, frame \in SanFrames :
         san = [op |-> "new", ct |-> ct, frame |-> frame, out |-> <<>>,
                again |-> <<>>]

\* DefaultSanitizer.Sanitize(ct, frame)
SanitizeFrame ==
    /\ san.op = "new"
    /\ san' = [san EXCEPT !.op = "Sanitize", !.out = Sanitize(san.ct, san.frame)]
    /\ UNCHANGED <<instance, l, opts, fl>>

\* DefaultSanitizer.Sanitize(ct, out), of the frame it returned: what a
\* Reader does to a frame a Writer has sanitized.
SanitizeAgain ==
    /\ san.op = "Sanitize"
    /\ san' = [san EXCEPT !.op = "SanitizeAgain",
                          !.again = Sanitize(san.ct, san.out)]
    /\ UNCHANGED <<instance, l, opts, fl>>

NextSanitize == SanitizeFrame \/ SanitizeAgain

SpecSanitize == InitSanitize /\ [][NextSanitize]_vars

\* -------------------------------------------------------------- the options

DefaultMaxFrameSize == 16 * 1024 * 1024
DefaultMaxFrames == 1024

\* A *bool: nil, or a pointer to a bool.
nilPtr == <<>>
BoolPtr(b) == <<b>>

\* The default of CloseOnError.
defaultCloseOnError == BoolPtr(TRUE)

\* defaultReaderOpts() and defaultWriterOpts(), without the Sanitizer and
\* the Tracer.
defaultOpts ==
    [MaxFrameSize |-> DefaultMaxFrameSize, MaxFrames |-> DefaultMaxFrames,
     CloseOnError |-> defaultCloseOnError]

\* &ReaderOptions{} and &WriterOptions{}
zeroOpts == [MaxFrameSize |-> 0, MaxFrames |-> 0, CloseOnError |-> nilPtr]

\* The ReaderWriterOptions that are given as options.
OptionValues ==
    [MaxFrameSize : 0..MaxOptValue, MaxFrames : 0..MaxOptValue,
     CloseOnError : {nilPtr, BoolPtr(TRUE), BoolPtr(FALSE)}]

\* What applyCommon does with CloseOnError.
applyCloseOnError(o, target) ==
    IF o.CloseOnError # nilPtr
    THEN [target EXCEPT !.CloseOnError = o.CloseOnError]
    ELSE target

\* o.applyCommon(target)
applyCommon_Overwrite(o, target) ==
    applyCloseOnError(o, [target EXCEPT !.MaxFrameSize = o.MaxFrameSize,
                                        !.MaxFrames = o.MaxFrames])
applyCommon(o, target) ==
    LET t1 == IF o.MaxFrameSize # 0
              THEN [target EXCEPT !.MaxFrameSize = o.MaxFrameSize]
              ELSE target
        t2 == IF o.MaxFrames # 0
              THEN [t1 EXCEPT !.MaxFrames = o.MaxFrames]
              ELSE t1
    IN  applyCloseOnError(o, t2)

\* o.ApplyToReader(target) and o.ApplyToWriter(target)
ApplyToReader(o, target) == applyCommon(o, target)
ApplyToWriter(o, target) == applyCommon(o, target)

\* o.ApplyOptions(list) of a ReaderOptions and of a WriterOptions
RECURSIVE readerApplyOptions(_, _)
readerApplyOptions(o, list) ==
    IF list = <<>> THEN o
    ELSE readerApplyOptions(ApplyToReader(Head(list), o), Tail(list))

RECURSIVE writerApplyOptions(_, _)
writerApplyOptions(o, list) ==
    IF list = <<>> THEN o
    ELSE writerApplyOptions(ApplyToWriter(Head(list), o), Tail(list))

\* Options are about to be applied to the default or to the zero options.
InitOptions ==
    /\ NoInstance
    /\ l = unused /\ san = unused /\ fl = unused
    /\ \E from \in {defaultOpts, zeroOpts}, list \in SeqsUpTo(OptionValues, MaxOpts) :
         opts = [op |-> "new", from |-> from, list |-> list, got |-> from]

ReaderApplyOptions ==
    /\ opts.op = "new"
    /\ opts' = [opts EXCEPT !.op = "ReaderOptions.ApplyOptions",
                            !.got = readerApplyOptions(opts.from, opts.list)]
    /\ UNCHANGED <<instance, l, san, fl>>

WriterApplyOptions ==
    /\ opts.op = "new"
    /\ opts' = [opts EXCEPT !.op = "WriterOptions.ApplyOptions",
                            !.got = writerApplyOptions(opts.from, opts.list)]
    /\ UNCHANGED <<instance, l, san, fl>>

NextOptions == ReaderApplyOptions \/ WriterApplyOptions

SpecOptions == InitOptions /\ [][NextOptions]_vars

\* ---------------------------------------------------------- the FrameLists

\* One round of ReadFrameList's loop, given what fr.ReadFrame returned: the
\* loop ends at io.EOF with the frames read so far, ends at another error
\* with no frames, and otherwise goes on with the frame appended.
readFrameListStep_KeepFrames(frameList, frame, err) ==
    IF err = EOF
    THEN [done |-> TRUE, frameList |-> frameList, err |-> ErrNil]
    ELSE IF err # ErrNil
    THEN [done |-> TRUE, frameList |-> frameList, err |-> err]
    ELSE [done |-> FALSE, frameList |-> Append(frameList, frame), err |-> ErrNil]
readFrameListStep(frameList, frame, err) ==
    IF err = EOF
    THEN [done |-> TRUE, frameList |-> frameList, err |-> ErrNil]
    ELSE IF err # ErrNil
    THEN [done |-> TRUE, frameList |-> <<>>, err |-> err]
    ELSE [done |-> FALSE, frameList |-> Append(frameList, frame), err |-> ErrNil]

\* The []byte that ReadFrame returns, frame being its bytes at that time.
\* The streaming reader returns d.buf[:base], of which the JSON sanitizer
\* (bytes.TrimSpace) returns the part without the whitespace around it: the
\* slice shares the array of d.buf.  The YAML and the single-shot reader
\* return bytes read into an array of their own.
sliceOf(cf, lo, frame) ==
    IF cf.kind = "streamingReader"
    THEN [shared |-> TRUE, bytes |-> <<>>,
          off |-> lo.base - Len(TrimLeft(SubSeq(lo.buf, 1, lo.base))),
          len |-> Len(frame)]
    ELSE [shared |-> FALSE, bytes |-> frame, off |-> 0, len |-> Len(frame)]

\* The bytes a slice holds when the buffer of the Reader is buf.
bytesOf(slice, buf) ==
    IF slice.shared
    THEN SubSeq(buf, slice.off + 1, slice.off + slice.len)
    ELSE slice.bytes

\* ReadFrameList(ctx, fr) on a Reader whose resource is c and whose state is
\* h.  frameList holds the slices appended so far; the list returned is
\* what they hold once the loop has ended.  trace lists what each
\* fr.ReadFrame of the loop returned, as it was then.
RECURSIVE readFrameList(_, _, _, _, _, _)
readFrameList(c, h, cf, cerr, frameList, trace) ==
    With(readAccessFn(h, cf), LAMBDA fn :
    With(accessResource(c, cf, fn.err, cerr), LAMBDA ar :
    With(readFrameListStep(frameList, sliceOf(cf, fn.hr.lo, fn.frame), ar.err),
         LAMBDA st :
        LET h1 == IF ar.ran THEN fn.hr ELSE h
            t1 == Append(trace,
                         [frame |-> IF ar.ran /\ ar.err = ErrNil THEN fn.frame ELSE <<>>,
                          err |-> ar.err, closeErr |-> ar.closeErr,
                          wasClosed |-> c.closed])
        IN  IF st.done
            THEN [res |-> ar.c, hr |-> h1,
                  frameList |-> [i \in 1..Len(st.frameList) |->
                                    bytesOf(st.frameList[i], h1.lo.buf)],
                  err |-> st.err,
                  closeErr |-> IF st.err = ErrNil THEN ErrNil ELSE ar.closeErr,
                  trace |-> t1]
            ELSE readFrameList(ar.c, h1, cf, cerr, st.frameList, t1))))

\* WriteFrameList's loop ends at the first fw.WriteFrame that returns an
\* error.
writeFrameListStops_Never(err) == FALSE
writeFrameListStops(err) == err # ErrNil

\* WriteFrameList(ctx, fw, frameList) on a Writer whose resource is c and
\* whose state is h.  outsList is what the sink does during each WriteFrame;
\* trace lists what each fw.WriteFrame of the loop was given and returned.
RECURSIVE writeFrameList(_, _, _, _, _, _, _)
writeFrameList(c, h, cf, cerr, frameList, outsList, trace) ==
    IF frameList = <<>>
    THEN [res |-> c, hw |-> h, err |-> ErrNil, closeErr |-> ErrNil, trace |-> trace]
    ELSE With(writeAccessFn(h, cf, Head(frameList), Head(outsList)), LAMBDA fn :
         With(accessResource(c, cf, fn.err, cerr), LAMBDA ar :
            LET h1 == IF ar.ran THEN fn.hw ELSE h
                t1 == Append(trace,
                             [frame |-> Head(frameList), err |-> ar.err,
                              closeErr |-> ar.closeErr, wasClosed |-> c.closed,
                              outs |-> Head(outsList)])
            IN  IF writeFrameListStops(ar.err)
                THEN [res |-> ar.c, hw |-> h1, err |-> ar.err,
                      closeErr |-> ar.closeErr, trace |-> t1]
                ELSE writeFrameList(ar.c, h1, cf, cerr, Tail(frameList),
                                    Tail(outsList), t1)))

\* A one-byte document other than docFrame.
otherDoc == <<"b">>

\* The short streams, and one of two documents that differ.
ListStreams == ShortStreams \cup {<<docFrame, otherDoc>>}

\* The Readers of any configuration on those streams, and the Writers.
InitList == InitOf(ReaderConfigs \X ListStreams)

\* The calls made on the Reader or Writer before the list is read or
\* written.
ReadFrameBefore ==
    fl = unused /\ ReadFrameWithin(MaxPriorCalls) /\ UNCHANGED <<mux, pc, units>>
WriteFrameBefore ==
    fl = unused /\ WriteFrameWithin(MaxPriorCalls) /\ UNCHANGED <<mux, pc, units>>
CloseBefore == fl = unused /\ Close

\* How many of the calls of a trace returned nil.
RECURSIVE nilCalls(_)
nilCalls(trace) ==
    IF trace = <<>> THEN 0
    ELSE (IF Head(trace).err = ErrNil THEN 1 ELSE 0) + nilCalls(Tail(trace))

\* ReadFrameList(ctx, fr), once the FrameList is at `at`; written is the
\* list the source of the Reader was written from, if it was.
ReadFrameListAt(at, written) ==
    /\ role = "reader" /\ fl.op = at
    /\ \E cerr \in CloseOutcomes :
       \E r \in {readFrameList(res, hr, cfg, cerr, <<>>, <<>>)} :
         LET end == r.trace[Len(r.trace)]
         IN  /\ res' = r.res
             /\ hr' = r.hr
             /\ fl' = [op |-> "ReadFrameList", frameList |-> r.frameList,
                       err |-> r.err, closeErr |-> r.closeErr, trace |-> r.trace,
                       written |-> written]
             /\ calls' = calls + Len(r.trace)
             /\ last' = [op |-> "ReadFrame", err |-> end.err, frame |-> end.frame,
                         closeErr |-> end.closeErr, wasClosed |-> end.wasClosed,
                         outs |-> <<sinkOK, sinkOK>>]
             /\ eofReturned' = (eofReturned \/ end.err = EOF)
             /\ delivered' = delivered + nilCalls(r.trace)
    /\ UNCHANGED <<role, cfg, stream0, hw, closeCalls, faults, mux, pc, l, san, opts>>

ReadFrameList == ReadFrameListAt("none", <<>>)

\* What the sink may do during the WriteFrames of a list of n frames: accept
\* every Write whole, or, within MaxFaults, fall short or fail during one of
\* them.
allOK(n) == [i \in 1..n |-> <<sinkOK, sinkOK>>]
SinkChoicesList(n, maxFaults) ==
    {allOK(n)} \cup
    IF faults >= maxFaults THEN {}
    ELSE {[allOK(n) EXCEPT ![k] = outs] :
            k \in 1..n,
            outs \in IF FramePrefix(cfg.ct) = <<>>
                     THEN {sinkOK} \X SinkOutcomes
                     ELSE SinkOutcomes \X SinkOutcomes}

\* WriteFrameList(ctx, fw, frameList) for a list of frameLists, over a sink
\* that falls short or fails at most maxFaults times.
WriteFrameListOf(frameLists, maxFaults) ==
    /\ role = "writer" /\ fl = unused
    /\ \E frameList \in frameLists, cerr \in CloseOutcomes :
       \E outsList \in SinkChoicesList(Len(frameList), maxFaults) :
       \E r \in {writeFrameList(res, hw, cfg, cerr, frameList, outsList, <<>>)} :
         /\ res' = r.res
         /\ hw' = r.hw
         /\ fl' = [op |-> "WriteFrameList", frameList |-> frameList,
                   err |-> r.err, closeErr |-> r.closeErr, trace |-> r.trace,
                   sink |-> hw.lo.sink]
         /\ calls' = calls + Len(r.trace)
         /\ last' = IF r.trace = <<>> THEN last
                    ELSE LET end == r.trace[Len(r.trace)]
                         IN  [op |-> "WriteFrame", err |-> end.err,
                              frame |-> end.frame, closeErr |-> end.closeErr,
                              wasClosed |-> end.wasClosed, outs |-> end.outs]
         /\ faults' = IF \E i \in 1..Len(r.trace) : r.trace[i].outs # <<sinkOK, sinkOK>>
                      THEN faults + 1 ELSE faults
    /\ UNCHANGED <<role, cfg, stream0, hr, closeCalls, eofReturned, delivered,
                   mux, pc, l, san, opts>>

\* The frames of the lists written: one that is written, one that is empty
\* once sanitized and one that is over MaxFrameSize.
ListFrames == {docFrame, blankFrame, bigFrame}

WriteFrameList == WriteFrameListOf(SeqsUpTo(ListFrames, MaxListLen), MaxFaults)

\* The streams read to see empty frames skipped: the long ones, and a
\* document followed by a run of blank frames.
SkipStreams == LongStreams \cup {<<docFrame>> \o Pad(n) : n \in PadSizes}

\* The YAML and JSON Readers on those streams.
InitSkip == InitOf(FramedConfigs \X SkipStreams) /\ role = "reader"

\* ReadFrame calls, and then ReadFrameList.
ReadFrameSkipping ==
    fl = unused /\ ReadFrameWithin(MaxCalls) /\ UNCHANGED <<mux, pc, units>>

NextSkip == ReadFrameSkipping \/ ReadFrameList

SpecSkip == InitSkip /\ [][NextSkip]_vars

NextList ==
    \/ ReadFrameBefore \/ WriteFrameBefore \/ CloseBefore
    \/ ReadFrameList \/ WriteFrameList

SpecList == InitList /\ [][NextList]_vars

\* ------------------------------------------------------------ round trips

\* The bytes of JSON objects.
LBRACE == "{"
RBRACE == "}"

\* Where the JSON value that starts at s[1] ends: at the brace that closes
\* its first one, or at the end of s if none does.
RECURSIVE jsonValueEnd(_, _, _)
jsonValueEnd(s, i, depth) ==
    IF i > Len(s) THEN Len(s)
    ELSE LET d == CASE s[i] = LBRACE -> depth + 1
                    [] s[i] = RBRACE -> depth - 1
                    [] OTHER -> depth
         IN  IF d <= 0 THEN i ELSE jsonValueEnd(s, i + 1, d)

\* The frames json.Framer's reader finds in a byte stream: each value, from
\* its first byte to its last, without the whitespace between the values.
RECURSIVE jsonFrames(_)
jsonFrames(s) ==
    LET t == TrimLeft(s)
    IN  IF t = <<>> THEN <<>>
        ELSE LET e == jsonValueEnd(t, 1, 0)
             IN  <<SubSeq(t, 1, e)>> \o jsonFrames(SubSeq(t, e + 1, Len(t)))

\* The frames written and read back: YAML documents without and with
\* whitespace around them, one of which takes MaxFrameSize bytes once
\* sanitized; JSON objects, bare, nested and with whitespace around them.
RoundTripFrames(ct) ==
    IF ct = ContentTypeYAML
    THEN {docFrame, nearFrame, <<NL, "a", NL>>}
    ELSE {<<LBRACE, RBRACE>>, <<LBRACE, LBRACE, RBRACE, RBRACE>>,
          <<SP, LBRACE, RBRACE, NL>>}

\* The YAML and JSON Writers, over a buffer.
InitRoundTrip ==
    /\ InitOf(ReaderInputs)
    /\ role = "writer"
    /\ cfg.ct \in {ContentTypeYAML, ContentTypeJSON}

\* WriteFrameList of frames of the Writer's content type, into the buffer.
RoundTripWrite ==
    WriteFrameListOf(SeqsUpTo(RoundTripFrames(cfg.ct), MaxRoundTrip), 0)

\* NewReader of the Writer's content type and options over the buffer the
\* Writer wrote to.
RoundTripNewReader ==
    /\ role = "writer" /\ fl.op = "WriteFrameList"
    /\ role' = "reader"
    /\ cfg' = [cfg EXCEPT !.kind = lowlevelFromReadCloser(cfg.ct, cfg.MaxFrames),
                          !.srcEnd = EOF,
                          !.lead = StartsWithSepLine(hw.lo.sink)]
    /\ stream0' = IF cfg'.kind = "yamlReader" THEN <<>> ELSE jsonFrames(hw.lo.sink)
    /\ res' = [closed |-> FALSE, closeCount |-> 0]
    /\ hr' = [successfulFrameCount |-> 0, totalFrameCount |-> 0,
              lo |-> [stream |-> stream0', lowErr |-> ErrNil, hasBeenRead |-> FALSE,
                      calls |-> 0,
                      src |-> IF cfg'.kind = "yamlReader" THEN hw.lo.sink ELSE <<>>,
                      bufd |-> <<>>, berr |-> ErrNil, frameBytes |-> 0,
                      pbuf |-> <<>>,
                      buf |-> IF cfg'.kind = "streamingReader"
                              THEN newBuf(MaxFrameSize) ELSE <<>>,
                      base |-> 0]]
    /\ calls' = 0
    /\ closeCalls' = 0
    /\ last' = [op |-> "new", err |-> ErrNil, frame |-> <<>>, closeErr |-> ErrNil,
                wasClosed |-> FALSE, outs |-> <<sinkOK, sinkOK>>]
    /\ fl' = [fl EXCEPT !.op = "NewReader"]
    /\ UNCHANGED <<hw, eofReturned, delivered, faults, mux, pc, l, san, opts>>

\* ReadFrameList from that Reader.
RoundTripRead == ReadFrameListAt("NewReader", fl.frameList)

NextRoundTrip == RoundTripWrite \/ RoundTripNewReader \/ RoundTripRead

SpecRoundTrip == InitRoundTrip /\ [][NextRoundTrip]_vars

\* ------------------------------------------------------ the IoLimitedReader

\* The bytes of the source of an IoLimitedReader used on its own: each is
\* its place in the source.
srcBytes(n) == [i \in 1..n |-> i]

\* What the underlying io.Reader may do with one Read: hand over up to most
\* bytes, and return nil, io.EOF or an error of its own.  It returns io.EOF
\* only with or after its last byte.
ReadOutcomes(src, n) ==
    {out \in [most : 0..MaxBufLen, err : {ErrNil, EOF, SourceErr}] :
        out.err = EOF => Min(n, out.most) >= Len(src)}

\* NewIoLimitedReader(r, maxFrameSize) over a source of up to MaxSrcLen
\* bytes.  reported is every b[:n] handed to the callers so far, consumed
\* every byte the source has handed over so far and returned the sum of the
\* byte counts Read has returned since the last ResetCounter.
InitLimited ==
    /\ NoInstance
    /\ san = unused /\ opts = unused /\ fl = unused
    /\ \E maxFrameSize \in 1..MaxLimit, n \in 0..MaxSrcLen :
         l = [op |-> "new", src |-> srcBytes(n), pbuf |-> <<>>,
              maxFrameSize |-> maxFrameSize, frameBytes |-> 0, calls |-> 0,
              data |-> <<>>, err |-> ErrNil, reads |-> 0, asked |-> 0,
              got |-> <<>>, under |-> ErrNil, reported |-> <<>>,
              consumed |-> <<>>, returned |-> 0]

\* l.Read(b), with len(b) up to MaxBufLen
LimitedRead ==
    /\ l.op # "none" /\ l.calls < MaxLimitedCalls
    /\ \E blen \in 0..MaxBufLen :
       \E out \in ReadOutcomes(l.src, blen) :
       \E r \in {limitedRead(l, l.maxFrameSize, blen, out)} :
         l' = [r.lo EXCEPT !.op = "Read", !.calls = l.calls + 1,
                           !.data = r.data, !.err = r.err, !.reads = r.reads,
                           !.asked = r.asked, !.got = r.got, !.under = r.under,
                           !.reported = l.reported \o r.data,
                           !.consumed = l.consumed \o r.got,
                           !.returned = l.returned + Len(r.data)]
    /\ UNCHANGED <<instance, san, opts, fl>>

\* l.ResetCounter()
LimitedResetCounter ==
    /\ l.op # "none" /\ l.calls < MaxLimitedCalls
    /\ l' = [ResetCounter(l) EXCEPT !.op = "ResetCounter", !.calls = l.calls + 1,
                                    !.data = <<>>, !.err = ErrNil, !.reads = 0,
                                    !.asked = 0, !.got = <<>>, !.under = ErrNil,
                                    !.returned = 0]
    /\ UNCHANGED <<instance, san, opts, fl>>

NextLimited == LimitedRead \/ LimitedResetCounter

SpecLimited == InitLimited /\ [][NextLimited]_vars

\* ------------------------------------------------------------- properties

\* A step that is a ReadFrame or WriteFrame call, and one that is a Close call.
IsAccessStep == calls' = calls + 1
IsCloseStep == closeCalls' = closeCalls + 1

\* C1: Closed is absorbing.  A closed Reader or Writer, closed by Close or by
\* the close on error, stays closed, and every ReadFrame or WriteFrame made on
\* it returns io.ErrClosedPipe: it neither succeeds nor returns another error,
\* and it reaches neither the low-level reader nor the low-level writer.
C1_ClosedIsAbsorbing ==
    [][res.closed =>
         /\ res'.closed
         /\ IsAccessStep =>
              /\ last'.err = ErrClosedPipe
              /\ hr' = hr /\ hw' = hw]_vars

\* C1 witness: a Writer closed by an explicit Close has refused a WriteFrame.
C1_Witness ==
    /\ role = "writer" /\ closeCalls = 1
    /\ last.op = "WriteFrame" /\ last.wasClosed /\ last.err = ErrClosedPipe

\* C2: with closeOnError, a ReadFrame or WriteFrame on an open resource
\* returns the error of the operation itself (combined with the error of the
\* underlying close, if that close fails) and, when that error is not nil,
\* leaves the resource closed; a successful call leaves it open.  The call
\* after one that returned an error returns io.ErrClosedPipe.
C2_CloseOnError ==
    [][(cfg.closeOnError /\ IsAccessStep) =>
         /\ ~res.closed =>
              /\ role = "reader" => last'.err = readAccessFn(hr, cfg).err
              /\ role = "writer" =>
                   \E outs \in SinkOutcomes \X SinkOutcomes :
                       last'.err = writeAccessFn(hw, cfg, last'.frame, outs).err
              /\ res'.closed <=> last'.err # ErrNil
         /\ (last.op \in {"ReadFrame", "WriteFrame"} /\ last.err # ErrNil) =>
              last'.err = ErrClosedPipe]_vars

\* C2 witness: with closeOnError and no Close call, a ReadFrame returned
\* io.EOF and the ReadFrame after it returned io.ErrClosedPipe.
C2_Witness ==
    /\ cfg.closeOnError /\ closeCalls = 0 /\ eofReturned
    /\ last.op = "ReadFrame" /\ last.wasClosed /\ last.err = ErrClosedPipe

C4_EOFIsSticky ==
    [][(role = "reader" /\ ~cfg.closeOnError /\ closeCalls = 0 /\ eofReturned
        /\ IsAccessStep) => last'.err = EOF]_vars

\* C5: ReadFrame returns either a frame of at least one byte and a nil error,
\* or no frame and an error; a frame that is empty once sanitized is skipped.
C5_NoEmptyFrame ==
    last.op = "ReadFrame" =>
        \/ last.err = ErrNil /\ Len(last.frame) >= 1
        \/ last.err # ErrNil /\ last.frame = <<>>

\* C5 witness: a ReadFrame skipped an empty frame and returned the frame
\* after it.
C5_Witness ==
    /\ last.op = "ReadFrame" /\ last.err = ErrNil /\ Len(last.frame) >= 1
    /\ hr.totalFrameCount > hr.successfulFrameCount

\* C6, as stated: a Reader's successfulFrameCount never exceeds MaxFrames.
C6_SuccessfulWithinMaxFrames ==
    role = "reader" => hr.successfulFrameCount <= cfg.MaxFrames

\* C6, amended: a Reader's successfulFrameCount never exceeds MaxFrames + 1,
\* and the frames returned to the callers are the first MaxFrames counted:
\* the frame that takes the counter to MaxFrames + 1 is read and dropped.
C6_SuccessfulWithinMaxFramesPlusOne ==
    role = "reader" =>
        /\ hr.successfulFrameCount <= cfg.MaxFrames + 1
        /\ delivered <= cfg.MaxFrames
        /\ delivered = IF hr.successfulFrameCount > cfg.MaxFrames
                       THEN cfg.MaxFrames ELSE hr.successfulFrameCount

\* C6 witness: MaxFrames frames were returned, and the read of one more
\* took successfulFrameCount to MaxFrames + 1 and returned the count overflow.
C6_Witness ==
    /\ role = "reader" /\ last.op = "ReadFrame"
    /\ last.err = FrameCountOverflowErr /\ ~last.wasClosed
    /\ hr.successfulFrameCount = cfg.MaxFrames + 1
    /\ delivered = cfg.MaxFrames

\* C7: a Reader's totalFrameCount never exceeds 10 x MaxFrames and equals the
\* number of calls its low-level reader received, whatever those returned;
\* a ReadFrame on an open Reader whose totalFrameCount is 10 x MaxFrames or
\* more returns the count overflow and leaves the low-level reader alone.
C7_TotalWithinTenfold ==
    [][role = "reader" =>
         /\ hr'.totalFrameCount <= cfg.MaxFrames * TotalFactor
         /\ hr'.lo.calls = hr'.totalFrameCount
         /\ (IsAccessStep /\ ~res.closed
             /\ hr.totalFrameCount >= cfg.MaxFrames * TotalFactor) =>
              (last'.err = FrameCountOverflowErr /\ hr'.lo = hr.lo)]_vars

\* C7 witness: with fewer than MaxFrames frames counted, totalFrameCount
\* reached 10 x MaxFrames over empty frames and a read that failed, and
\* ReadFrame returned the count overflow.
C7_Witness ==
    /\ role = "reader" /\ last.op = "ReadFrame" /\ ~last.wasClosed
    /\ last.err = FrameCountOverflowErr /\ eofReturned
    /\ hr.successfulFrameCount < cfg.MaxFrames
    /\ hr.totalFrameCount = cfg.MaxFrames * TotalFactor

\* The Reader reads a stream of frames: YAML documents or JSON values.
FramedReader ==
    role = "reader" /\ cfg.kind \in {"yamlReader", "streamingReader"}

\* The i-th frame of stream s as the low-level reader yields it: for YAML,
\* the document with its newline, after the leading separator if it is the
\* first.
RawFrame(s, i) ==
    IF cfg.kind = "yamlReader"
    THEN (IF i = 1 /\ cfg.lead THEN yamlSep ELSE <<>>) \o yamlDoc(s[i])
    ELSE s[i]

\* Every frame of stream s is within the frame size limit.
FitsFrameSize(s) == \A i \in 1..Len(s) : Len(RawFrame(s, i)) <= MaxFrameSize

\* The number of frames of s that are not empty once sanitized.
RECURSIVE NonEmptyFrames(_, _)
NonEmptyFrames(ct, s) ==
    IF s = <<>> THEN 0
    ELSE (IF Len(Sanitize(ct, Head(s))) = 0 THEN 0 ELSE 1)
         + NonEmptyFrames(ct, Tail(s))

\* The length of the shortest prefix of s that holds k non-empty frames.
PrefixHolding(ct, s, k) ==
    CHOOSE n \in 0..Len(s) :
        /\ NonEmptyFrames(ct, SubSeq(s, 1, n)) = k
        /\ \A m \in 0..(n - 1) : NonEmptyFrames(ct, SubSeq(s, 1, m)) < k

\* What C8 says of the calls made so far: the first MaxFrames returned a
\* frame, the next the count overflow, and so did the later ones unless the
\* Reader closes on error.
CountBoundary ==
    /\ calls <= cfg.MaxFrames => (last.err = ErrNil /\ Len(last.frame) >= 1)
    /\ calls = cfg.MaxFrames + 1 => last.err = FrameCountOverflowErr
    /\ (calls > cfg.MaxFrames + 1 /\ ~cfg.closeOnError) =>
           last.err = FrameCountOverflowErr

\* A Reader, never closed by Close, of a stream of frames within the size
\* limit of which more than MaxFrames are not empty, whose source ends in
\* io.EOF, has made a ReadFrame.
MoreThanMaxFramesRead ==
    /\ FramedReader /\ closeCalls = 0 /\ last.op = "ReadFrame"
    /\ cfg.srcEnd = EOF
    /\ FitsFrameSize(stream0)
    /\ NonEmptyFrames(cfg.ct, stream0) > cfg.MaxFrames

\* C8, as stated: on a stream holding more than MaxFrames non-empty frames
\* the first MaxFrames calls return a frame, the next returns the count
\* overflow, and without closeOnError so does every later call.
C8_CountBoundary == MoreThanMaxFramesRead => CountBoundary

\* C8, amended: the same, for the streams whose first MaxFrames non-empty
\* frames lie within the first 10 x MaxFrames frames; on the other streams a
\* call among the first MaxFrames returns the count overflow instead.
C8_CountBoundaryWithinTenfold ==
    MoreThanMaxFramesRead =>
        IF PrefixHolding(cfg.ct, stream0, cfg.MaxFrames) <= cfg.MaxFrames * TotalFactor
        THEN CountBoundary
        ELSE calls >= cfg.MaxFrames =>
               last.err \in {FrameCountOverflowErr, ErrClosedPipe}

\* C8 witness: without closeOnError, a call after the (MaxFrames+1)-th was
\* made on a stream that has empty frames before its MaxFrames-th non-empty
\* one.
C8_Witness ==
    /\ MoreThanMaxFramesRead /\ ~cfg.closeOnError
    /\ PrefixHolding(cfg.ct, stream0, cfg.MaxFrames) > cfg.MaxFrames
    /\ PrefixHolding(cfg.ct, stream0, cfg.MaxFrames) <= cfg.MaxFrames * TotalFactor
    /\ calls > cfg.MaxFrames + 1
    /\ last.err = FrameCountOverflowErr

\* An open Reader has returned all the non-empty frames, MaxFrames of them,
\* of a stream of frames within the size limit whose source ends in io.EOF.
ExactlyMaxFramesReturned ==
    /\ FramedReader /\ cfg.srcEnd = EOF /\ ~res.closed
    /\ FitsFrameSize(stream0)
    /\ NonEmptyFrames(cfg.ct, stream0) = cfg.MaxFrames
    /\ hr.successfulFrameCount = cfg.MaxFrames

\* C9, as stated: once the MaxFrames non-empty frames of a stream have been
\* returned, ReadFrame returns io.EOF.
C9_EOFAfterMaxFrames ==
    [][(ExactlyMaxFramesReturned /\ IsAccessStep) => last'.err = EOF]_vars

\* C9, amended: it returns io.EOF when the low-level reads made so far and
\* the empty frames left in the stream number fewer than 10 x MaxFrames, and
\* the count overflow otherwise.
C9_EOFAfterMaxFramesWithinTenfold ==
    [][(ExactlyMaxFramesReturned /\ IsAccessStep) =>
         last'.err = IF hr.totalFrameCount + Len(hr.lo.stream)
                          < cfg.MaxFrames * TotalFactor
                      THEN EOF ELSE FrameCountOverflowErr]_vars

\* C9 witness: the MaxFrames non-empty frames of a stream that also has
\* empty ones were returned, and the ReadFrame after them returned io.EOF.
C9_Witness ==
    /\ FramedReader /\ cfg.srcEnd = EOF /\ FitsFrameSize(stream0)
    /\ NonEmptyFrames(cfg.ct, stream0) = cfg.MaxFrames
    /\ Len(stream0) > cfg.MaxFrames
    /\ delivered = cfg.MaxFrames /\ calls = cfg.MaxFrames + 1
    /\ last.op = "ReadFrame" /\ last.err = EOF

\* Stream s holds nothing but whitespace between its separators: each of
\* its frames is made of whitespace only.
OnlyEmptyContent(s) ==
    \A i \in 1..Len(s) : \A j \in 1..Len(s[i]) : IsSpace(s[i][j])

\* The first ReadFrame of a Reader, open when called, of a stream of empty
\* content only, in frames within the size limit, whose source ends in io.EOF.
FirstReadOfEmptyStream ==
    /\ FramedReader /\ cfg.srcEnd = EOF
    /\ OnlyEmptyContent(stream0) /\ FitsFrameSize(stream0)
    /\ last.op = "ReadFrame" /\ calls = 1 /\ ~last.wasClosed

\* C10, as stated: the first ReadFrame on a stream of empty frames only,
\* however many, returns io.EOF.
C10_EmptyStreamIsEOF == FirstReadOfEmptyStream => last.err = EOF

\* C10, amended: it returns io.EOF when the stream has fewer than
\* 10 x MaxFrames empty frames, and the count overflow otherwise.
C10_EmptyStreamWithinTenfoldIsEOF ==
    FirstReadOfEmptyStream =>
        last.err = IF Len(stream0) < cfg.MaxFrames * TotalFactor
                   THEN EOF ELSE FrameCountOverflowErr

\* C10 witness: the first ReadFrame skipped 10 x MaxFrames - 1 empty frames
\* and returned io.EOF.
C10_Witness ==
    /\ FirstReadOfEmptyStream
    /\ Len(stream0) = cfg.MaxFrames * TotalFactor - 1
    /\ last.err = EOF

\* A step that is a WriteFrame call.
IsWriteStep == role = "writer" /\ IsAccessStep

C12_EmptyFrameElided ==
    [][(IsWriteStep /\ ~res.closed /\ Len(last'.frame) <= MaxFrameSize
        /\ Sanitize(cfg.ct, last'.frame) = <<>>) =>
         (last'.err = ErrNil /\ hw' = hw)]_vars

\* C13: on an open Writer, WriteFrame of a frame longer than MaxFrameSize
\* returns the size overflow and leaves the low-level writer, the sink and
\* frameCount alone.  WriteFrame of a frame of exactly MaxFrameSize bytes
\* that is not empty once sanitized, made while frameCount is below MaxFrames
\* on a Writer of a supported kind whose sink has accepted everything it
\* was given so far and accepts this frame, returns nil, counts the frame and appends it to the sink.
C13_WriteSizeBoundary ==
    [][(IsWriteStep /\ ~res.closed) =>
         LET frame == last'.frame
             f == Sanitize(cfg.ct, frame)
         IN  /\ Len(frame) > MaxFrameSize =>
                  (last'.err = FrameSizeOverflowErr /\ hw' = hw)
             /\ (Len(frame) = MaxFrameSize /\ f # <<>>
                 /\ hw.frameCount < cfg.MaxFrames
                 /\ cfg.kind # "errWriter" /\ faults' = 0) =>
                  /\ last'.err = ErrNil
                  /\ hw'.frameCount = hw.frameCount + 1
                  /\ hw'.lo.sink = hw.lo.sink \o FramePrefix(cfg.ct) \o f]_vars

\* C13 witness: an open Writer has returned the size overflow for a frame of
\* MaxFrameSize + 1 bytes and then written a frame of MaxFrameSize bytes.
C13_Witness ==
    /\ role = "writer" /\ last.op = "WriteFrame" /\ ~last.wasClosed
    /\ last.frame = fullFrame /\ last.err = ErrNil
    /\ calls >= 2 /\ hw.frameCount = 1 /\ hw.lo.calls = 1 /\ faults = 0

C17_AlwaysUnsupported ==
    [][(IsAccessStep /\ ~res.closed /\ cfg.ct = otherCT /\ cfg.MaxFrames # 1) =>
         last'.err = ErrUnsupportedContentType]_vars

\* C17, amended: with such a content type and MaxFrames, no call returns a
\* frame or writes to the sink.  A ReadFrame on the open Reader returns
\* ErrUnsupportedContentType for the first 10 * MaxFrames calls and the count
\* overflow from then on.  A WriteFrame on the open Writer returns the size
\* overflow for a frame longer than MaxFrameSize, nil for the frame of no
\* bytes, and ErrUnsupportedContentType for every other frame.
C17_UnsupportedKind ==
    [][(IsAccessStep /\ ~res.closed /\ cfg.ct = otherCT /\ cfg.MaxFrames # 1) =>
         /\ hw'.lo.sink = <<>> /\ hw'.frameCount = 0 /\ delivered' = 0
         /\ role = "reader" =>
              /\ last'.frame = <<>>
              /\ last'.err = IF hr.totalFrameCount < maxTotalFrames(cfg)
                             THEN ErrUnsupportedContentType
                             ELSE FrameCountOverflowErr
         /\ role = "writer" =>
              last'.err = IF Len(last'.frame) > MaxFrameSize
                          THEN FrameSizeOverflowErr
                          ELSE IF last'.frame = emptyFrame THEN ErrNil
                          ELSE ErrUnsupportedContentType]_vars

\* C17 witness: an open Reader of such a content type returned
\* ErrUnsupportedContentType 10 * MaxFrames times and then the count overflow.
C17_Witness ==
    /\ role = "reader" /\ cfg.ct = otherCT /\ cfg.MaxFrames # 1
    /\ last.op = "ReadFrame" /\ ~last.wasClosed /\ ~res.closed
    /\ hr.lo.calls = maxTotalFrames(cfg) /\ calls = maxTotalFrames(cfg) + 1
    /\ last.err = FrameCountOverflowErr

\* C18: a Reader or Writer built with hasCloser = false never closes the
\* underlying stream, and closes as any other does: Close returns nil and
\* leaves it closed, an error closes it when closeOnError is set, without a
\* close error, once closed it stays closed, and every ReadFrame or WriteFrame
\* on the closed instance returns io.ErrClosedPipe.
C18_NotOwnedNeverClosed ==
    [][~cfg.hasCloser =>
         /\ res'.closeCount = 0
         /\ res.closed => res'.closed
         /\ IsCloseStep => (res'.closed /\ last'.err = ErrNil)
         /\ (IsAccessStep /\ res.closed) => last'.err = ErrClosedPipe
         /\ (IsAccessStep /\ ~res.closed) =>
              /\ res'.closed = (cfg.closeOnError /\ last'.err # ErrNil)
              /\ last'.closeErr = ErrNil]_vars

\* C18 witness: a Reader or Writer over a stream it does not own, of a kind
\* whose low-level Close reaches the stream, was closed by an error and then
\* closed again by Close, and the stream was never closed.
C18_Witness ==
    /\ ~cfg.hasCloser /\ cfg.closeOnError /\ ~lowCloseIsNop(cfg.kind)
    /\ calls >= 1 /\ closeCalls = 1
    /\ last.op = "Close" /\ last.wasClosed /\ last.err = ErrNil
    /\ res.closed /\ res.closeCount = 0

NextFrame ==
    IF cfg.kind = "singleReader" THEN Flatten(stream0)
    ELSE IF cfg.kind = "yamlReader" THEN yamlDoc(Head(hr.lo.stream))
    ELSE Head(hr.lo.stream)

\* A ReadFrame step of an open YAML, JSON or single-shot Reader whose source
\* ends in io.EOF, every call so far having returned a frame, fewer than
\* MaxFrames of them, with a frame left to read.
ReadsNextFrame ==
    /\ role = "reader" /\ IsAccessStep /\ ~res.closed
    /\ cfg.kind # "errReader" /\ cfg.srcEnd = EOF
    /\ delivered = calls /\ delivered < cfg.MaxFrames
    /\ hr.lo.stream # <<>>

\* C15: a frame that takes exactly MaxFrameSize bytes of the stream is
\* returned, also after another frame, and a frame that takes
\* MaxFrameSize + 1 bytes makes ReadFrame return the size overflow.
C15_ReadSizeBoundary ==
    [][ReadsNextFrame =>
         /\ (Len(NextFrame) = MaxFrameSize /\ Sanitize(cfg.ct, NextFrame) # <<>>) =>
              (last'.err = ErrNil /\ last'.frame = Sanitize(cfg.ct, NextFrame))
         /\ Len(NextFrame) = MaxFrameSize + 1 =>
              last'.err = FrameSizeOverflowErr]_vars

\* The same holds of the sources that do not start with a separator.
ReadSizeBoundaryWithoutLead ==
    [][(ReadsNextFrame /\ ~cfg.lead) =>
         /\ (Len(NextFrame) = MaxFrameSize /\ Sanitize(cfg.ct, NextFrame) # <<>>) =>
              (last'.err = ErrNil /\ last'.frame = Sanitize(cfg.ct, NextFrame))
         /\ Len(NextFrame) = MaxFrameSize + 1 =>
              last'.err = FrameSizeOverflowErr]_vars

\* Goroutine c is in the body of its call: it holds the mutex, the call
\* running or over, the deferred Unlock still to come.
InBody(c) == pc[c].at \in {"held", "done"}

\* At most one goroutine is in the body of a call, the one holding the mutex.
OneInBody ==
    /\ Cardinality({c \in Callers : InBody(c)}) <= 1
    /\ \A c \in Callers : InBody(c) <=> mux.holder = c

RECURSIVE SanitizedFrom(_, _)
SanitizedFrom(s, i) ==
    IF i > Len(s) THEN <<>>
    ELSE LET f == Sanitize(cfg.ct, RawFrame(s, i))
         IN  (IF f = <<>> THEN <<>> ELSE <<f>>) \o SanitizedFrom(s, i + 1)

\* The non-empty frames of the Reader's stream, in stream order: for the
\* single-shot Reader the whole stream is the one frame.
ExpectedFrames ==
    IF cfg.kind = "singleReader"
    THEN (IF Sanitize(cfg.ct, Flatten(stream0)) = <<>> THEN <<>>
          ELSE <<Sanitize(cfg.ct, Flatten(stream0))>>)
    ELSE IF cfg.kind = "errReader" THEN <<>>
    ELSE SanitizedFrom(stream0, 1)

\* The number of frames of the stream the low-level reader h.lo has consumed.
Consumed(h) == Len(stream0) - Len(h.lo.stream)

\* A step in which goroutine c runs the body of its call.
RunsBody(c) == pc[c].at = "held" /\ pc'[c].at = "done"

\* A step in which a ReadFrame returns a frame, and one in which a WriteFrame
\* of a frame that is not empty once sanitized returns nil, the sink having
\* taken all it was given.
ReturnsFrame == role = "reader" /\ delivered' = delivered + 1
WritesFrame ==
    /\ IsWriteStep /\ ~res.closed /\ last'.err = ErrNil
    /\ last'.outs = <<sinkOK, sinkOK>>
    /\ Sanitize(cfg.ct, last'.frame) # <<>>

\* The goroutines in whose list of returned frames the k-th is.
GotBy(k) == {c \in Callers : \E i \in 1..Len(pc[c].got) : pc[c].got[i] = k}

\* C20: a ReadFrame that returns a frame returns, sanitized, the last of the
\* frames it consumed, which follow those the earlier calls consumed, and
\* the others it consumed are empty once sanitized (the single-shot Reader
\* returns the whole stream, once); a ReadFrame that returns io.EOF has
\* consumed what was left of the stream, all of it empty once sanitized; so
\* the frames returned are the non-empty frames of the stream in stream
\* order, none twice, none passed over but those a call returned an error
\* for, and on a stream of frames within MaxFrameSize the k-th call to
\* return a frame returns the k-th non-empty frame.  Each frame returned
\* goes to the one goroutine whose call read it.  The bodies of the calls
\* run in the order in which they acquired the mutex, and a WriteFrame that
\* returns nil for a frame not empty once sanitized appends it, sanitized
\* and framed, to what the sink holds, which no call alters otherwise than
\* by appending.
C20_OrderedDelivery ==
    [][/\ \A c \in Callers : RunsBody(c) => pc[c].ticket = mux.served + 1
       /\ ReturnsFrame =>
            /\ last'.frame # <<>>
            /\ IF cfg.kind = "singleReader"
               THEN delivered' = 1
                    /\ last'.frame = Sanitize(cfg.ct, Flatten(stream0))
               ELSE /\ Consumed(hr) < Consumed(hr')
                    /\ last'.frame =
                         Sanitize(cfg.ct, RawFrame(stream0, Consumed(hr')))
                    /\ \A i \in (Consumed(hr) + 1)..(Consumed(hr') - 1) :
                          Sanitize(cfg.ct, RawFrame(stream0, i)) = <<>>
            /\ FitsFrameSize(stream0) =>
                  /\ delivered' <= Len(ExpectedFrames)
                  /\ last'.frame = ExpectedFrames[delivered']
            /\ \A c \in Callers :
                  pc'[c].got = IF RunsBody(c) THEN Append(pc[c].got, delivered')
                               ELSE pc[c].got
            /\ \A k \in 1..delivered' : Cardinality(GotBy(k)')  = 1
       /\ (role = "reader" /\ IsAccessStep /\ ~res.closed /\ last'.err = EOF
           /\ cfg.kind \in {"yamlReader", "streamingReader"}) =>
            /\ Consumed(hr') = Len(stream0)
            /\ \A i \in (Consumed(hr) + 1)..Len(stream0) :
                  Sanitize(cfg.ct, RawFrame(stream0, i)) = <<>>
       /\ IsWriteStep =>
            /\ Len(hw.lo.sink) <= Len(hw'.lo.sink)
            /\ SubSeq(hw'.lo.sink, 1, Len(hw.lo.sink)) = hw.lo.sink
       /\ WritesFrame =>
            hw'.lo.sink = hw.lo.sink \o FramePrefix(cfg.ct)
                              \o Sanitize(cfg.ct, last'.frame)]_vars

\* C22: sanitizing a sanitized frame returns it as it is, whatever the
\* content type and the frame.
C22_SanitizeIdempotent == san.op = "SanitizeAgain" => san.again = san.out

\* C22 witness: a YAML frame that had a separator line and lacked its
\* newline was sanitized, and the result sanitized again.
C22_Witness ==
    /\ san.op = "SanitizeAgain" /\ san.ct = ContentTypeYAML
    /\ san.frame = yamlSepToken \o <<NL, "a">>
    /\ san.out = <<"a", NL>> /\ san.again = <<"a", NL>>

\* s starts, and s ends, with the separator token.
StartsWithSep(s) ==
    Len(s) >= Len(yamlSepToken) /\ SubSeq(s, 1, Len(yamlSepToken)) = yamlSepToken
EndsWithSep(s) ==
    /\ Len(s) >= Len(yamlSepToken)
    /\ SubSeq(s, Len(s) - Len(yamlSepToken) + 1, Len(s)) = yamlSepToken

\* s neither starts nor ends with whitespace.
NoSpaceAround(s) == s # <<>> => (~IsSpace(s[1]) /\ ~IsSpace(s[Len(s)]))

\* out is s without the whitespace s starts and ends with.
IsTrimmed(s, out) ==
    /\ NoSpaceAround(out)
    /\ \E i \in 0..Len(s), j \in 0..Len(s) :
          /\ i <= j
          /\ out = SubSeq(s, i + 1, j)
          /\ \A k \in (1..i) \cup ((j + 1)..Len(s)) : IsSpace(s[k])

\* C23: a sanitized YAML frame is empty, or a newline after bytes that
\* neither start nor end with whitespace or with the separator token "---";
\* a sanitized JSON frame is the frame without the whitespace around it;
\* a frame of another content type is returned as it is.
C23_SanitizeResult ==
    san.op = "Sanitize" =>
        CASE san.ct = ContentTypeYAML ->
               \/ san.out = <<>>
               \/ LET body == SubSeq(san.out, 1, Len(san.out) - 1)
                  IN  /\ san.out[Len(san.out)] = NL
                      /\ body # <<>> /\ NoSpaceAround(body)
                      /\ ~StartsWithSep(body) /\ ~EndsWithSep(body)
          [] san.ct = ContentTypeJSON -> IsTrimmed(san.frame, san.out)
          [] OTHER -> san.out = san.frame

\* C23 witness: a YAML frame with a space between a separator token and a
\* letter was sanitized to the letter and a newline.
C23_Witness ==
    /\ san.op = "Sanitize" /\ san.ct = ContentTypeYAML
    /\ san.frame = yamlSepToken \o <<SP, "a">>
    /\ san.out = <<"a", NL>>

\* The fields of the options, and the value of each that sets nothing.
OptionFields == {"MaxFrameSize", "MaxFrames", "CloseOnError"}
Unset(field) == IF field = "CloseOnError" THEN nilPtr ELSE 0

\* The options of the list that set the field.
Setting(list, field) == {i \in 1..Len(list) : list[i][field] # Unset(field)}

\* C24: after the options of a list are applied in order, each of
\* MaxFrameSize, MaxFrames and CloseOnError has the value of the last option
\* of the list that sets it to a non-zero (non-nil) value, or its starting
\* value if no option does.
C24_LastSetOptionWins ==
    opts.op \in {"ReaderOptions.ApplyOptions", "WriterOptions.ApplyOptions"} =>
        \A field \in OptionFields :
            LET setting == Setting(opts.list, field)
            IN  IF setting = {}
                THEN opts.got[field] = opts.from[field]
                ELSE \E i \in setting :
                        /\ \A j \in setting : j <= i
                        /\ opts.got[field] = opts.list[i][field]

\* C24 witness: two options that set MaxFrameSize and CloseOnError
\* differently, and leave MaxFrames alone, were applied to the default
\* ReaderOptions: the second one's values and the default MaxFrames are the
\* result.
C24_Witness ==
    /\ opts.op = "ReaderOptions.ApplyOptions"
    /\ opts.from = defaultOpts
    /\ opts.list = << [MaxFrameSize |-> 1, MaxFrames |-> 0, CloseOnError |-> BoolPtr(TRUE)],
                      [MaxFrameSize |-> 2, MaxFrames |-> 0, CloseOnError |-> BoolPtr(FALSE)] >>
    /\ opts.got = [MaxFrameSize |-> 2, MaxFrames |-> DefaultMaxFrames,
                   CloseOnError |-> BoolPtr(FALSE)]

\* C25: ReadFrameList calls ReadFrame until one call returns an error.  If
\* that error is io.EOF it returns the frames of the calls before, in the
\* order they were read, and a nil error; otherwise it returns that error
\* and no frames.
C25_ReadFrameList ==
    fl.op = "ReadFrameList" =>
        LET n == Len(fl.trace)
        IN  /\ n >= 1
            /\ \A i \in 1..(n - 1) : fl.trace[i].err = ErrNil
            /\ fl.trace[n].err # ErrNil
            /\ IF fl.trace[n].err = EOF
               THEN /\ fl.err = ErrNil
                    /\ fl.frameList = [i \in 1..(n - 1) |-> fl.trace[i].frame]
               ELSE /\ fl.err = fl.trace[n].err
                    /\ fl.closeErr = fl.trace[n].closeErr
                    /\ fl.frameList = <<>>

\* C25 witness: ReadFrameList read a frame, then got the source's error: it
\* returned the error and no frames.
C25_Witness ==
    /\ fl.op = "ReadFrameList"
    /\ Len(fl.trace) = 2
    /\ fl.trace[1].err = ErrNil /\ fl.trace[1].frame # <<>>
    /\ fl.trace[2].err = SourceErr
    /\ fl.err = SourceErr /\ fl.frameList = <<>>

\* What a Writer of content type ct puts in the sink for the frames.
WrittenFor(ct, frames) ==
    Flatten([i \in 1..Len(frames) |->
                LET f == Sanitize(ct, frames[i])
                IN  IF f = <<>> THEN <<>> ELSE FramePrefix(ct) \o f])

\* C26: WriteFrameList calls WriteFrame on the frames of the list, in order,
\* until one call returns an error, which it returns; it makes no call
\* after that one, and returns nil when every call has returned nil.  What
\* the calls before a failing one wrote is in the sink.
C26_WriteFrameList ==
    fl.op = "WriteFrameList" =>
        LET n == Len(fl.trace)
        IN  /\ n <= Len(fl.frameList)
            /\ \A i \in 1..n : fl.trace[i].frame = fl.frameList[i]
            /\ \A i \in 1..(n - 1) : fl.trace[i].err = ErrNil
            /\ calls <= MaxPriorCalls + n
            /\ IF n > 0 /\ fl.trace[n].err # ErrNil
               THEN /\ fl.err = fl.trace[n].err
                    /\ fl.closeErr = fl.trace[n].closeErr
               ELSE fl.err = ErrNil /\ n = Len(fl.frameList)
            /\ (\A i \in 1..(n - 1) : fl.trace[i].outs = <<sinkOK, sinkOK>>)
                 => LET written == fl.sink \o WrittenFor(cfg.ct, SubSeq(fl.frameList, 1, n - 1))
                    IN  /\ Len(hw.lo.sink) >= Len(written)
                        /\ SubSeq(hw.lo.sink, 1, Len(written)) = written

\* C26 witness: WriteFrameList wrote the first of two frames and the second
\* WriteFrame, of a frame over MaxFrameSize, failed: it returned that error
\* and the first frame is in the sink.
C26_Witness ==
    /\ fl.op = "WriteFrameList"
    /\ cfg.ct = ContentTypeYAML
    /\ fl.frameList = <<docFrame, bigFrame>>
    /\ Len(fl.trace) = 2
    /\ fl.trace[1].err = ErrNil
    /\ fl.err = FrameSizeOverflowErr
    /\ fl.sink = <<>>
    /\ hw.lo.sink = FramePrefix(ContentTypeYAML) \o Sanitize(ContentTypeYAML, docFrame)

\* A step is a Read of the IoLimitedReader, and a ResetCounter of it.
IsLimitedRead == l.op # "none" /\ l'.op = "Read" /\ l'.calls = l.calls + 1
IsResetCounter == l.op # "none" /\ l'.op = "ResetCounter" /\ l'.calls = l.calls + 1

\* The IoLimitedReader's own state.
limitedState(r) == <<r.src, r.pbuf, r.frameBytes, r.maxFrameSize>>

\* C27: while frameBytes is over maxFrameSize, Read returns 0 bytes and the
\* frame size overflow error, without a Read of the underlying source and
\* without a change to the reader's state; only ResetCounter ends that.
C27_StickyOverflow ==
    [][(l.op # "none" /\ l.frameBytes > l.maxFrameSize) =>
          /\ IsLimitedRead =>
                /\ l'.data = <<>> /\ l'.err = FrameSizeOverflowErr
                /\ l'.reads = 0
                /\ limitedState(l') = limitedState(l)
          /\ l'.frameBytes <= l'.maxFrameSize => IsResetCounter]_vars

\* C27 witness: a Read has returned the overflow error without reading the
\* source, after an earlier one had found the byte over the limit.
C27_Witness ==
    /\ l.op = "Read" /\ l.err = FrameSizeOverflowErr /\ l.reads = 0
    /\ l.frameBytes = l.maxFrameSize + 1 /\ l.pbuf # <<>> /\ l.calls >= 3

\* C28: when frameBytes equals maxFrameSize, Read asks the underlying source
\* for exactly one byte.  If that Read returns an error, Read returns 0 bytes
\* and that error and the reader is not in overflow; if it returns one byte,
\* the byte is kept pending, frameBytes becomes maxFrameSize + 1 and Read
\* returns 0 bytes and the overflow error; if it returns no byte and no
\* error, Read returns an error.
C28_LookaheadAtLimit ==
    [][(IsLimitedRead /\ l.frameBytes = l.maxFrameSize) =>
          /\ l'.reads = 1 /\ l'.asked = 1
          /\ l'.data = <<>>
          /\ l'.under # ErrNil =>
                /\ l'.err = l'.under
                /\ ~(l'.frameBytes > l'.maxFrameSize)
          /\ Len(l'.got) = 1 =>
                /\ l'.pbuf = l.pbuf \o l'.got
                /\ l'.frameBytes = l.maxFrameSize + 1
                /\ l'.err = FrameSizeOverflowErr
          /\ (Len(l'.got) = 0 /\ l'.under = ErrNil) => l'.err = ErrNoProgress]_vars

\* C29 as stated: after ResetCounter frameBytes is 0 and no byte is pending.
C29_ResetClearsPending ==
    l.op = "ResetCounter" => (l.frameBytes = 0 /\ l.pbuf = <<>>)

\* C29, amended: ResetCounter sets frameBytes to 0 and leaves the pending
\* bytes, the source and maxFrameSize as they were.
C29_ResetCounter ==
    [][IsResetCounter =>
          /\ l'.frameBytes = 0
          /\ l'.pbuf = l.pbuf
          /\ l'.src = l.src /\ l'.maxFrameSize = l.maxFrameSize]_vars

\* C29 witness: ResetCounter was called while a byte was pending, and the
\* byte is still pending.
C29_Witness ==
    l.op = "ResetCounter" /\ l.frameBytes = 0 /\ l.pbuf = <<2>>

\* C30: the bytes handed to the callers, in call order, followed by the
\* pending byte if there is one, are the bytes the source has handed over,
\* in order: none is lost, doubled or handed to a caller uncounted.
C30_ByteStreamIntegrity ==
    l.op # "none" =>
        /\ Len(l.pbuf) <= 1
        /\ l.reported \o l.pbuf = l.consumed

\* C31: between two ResetCounter calls the byte counts Read returns add up
\* to maxFrameSize at most, frameBytes never exceeds maxFrameSize + 1, and
\* the persistent buffer never holds more than one byte.
C31_Budget ==
    l.op # "none" =>
        /\ l.returned <= l.maxFrameSize
        /\ l.frameBytes <= l.maxFrameSize + 1
        /\ Len(l.pbuf) <= 1

\* C31 witness: after a ResetCounter, the Reads have returned maxFrameSize
\* bytes and the next has found one byte more, which is pending.
C31_Witness ==
    /\ l.op = "Read" /\ l.calls = 4 /\ Len(l.consumed) > l.maxFrameSize + 1
    /\ l.returned = l.maxFrameSize
    /\ l.frameBytes = l.maxFrameSize + 1 /\ Len(l.pbuf) = 1

\* The frames of a list are not empty once sanitized and within
\* MaxFrameSize, before and after, and the list is within MaxFrames.
WithinLimits(frames) ==
    /\ Len(frames) <= cfg.MaxFrames
    /\ \A i \in 1..Len(frames) :
          /\ Len(frames[i]) <= MaxFrameSize
          /\ Sanitize(cfg.ct, frames[i]) # <<>>
          /\ Len(Sanitize(cfg.ct, frames[i])) <= MaxFrameSize

\* A list was written by a Writer and what it wrote read back by a Reader of
\* the same content type.
ReadBack == fl.op = "ReadFrameList" /\ role = "reader" /\ hw.lo.calls > 0

\* C21: when a list of frames that are not empty and within the limits is
\* written by a YAML or JSON Writer and the bytes written are read by a
\* Reader of the same content type, the Reader returns the sanitized frames
\* of the list, in order, and then io.EOF.
C21_RoundTrip ==
    (ReadBack /\ WithinLimits(fl.written)) =>
        /\ fl.err = ErrNil
        /\ fl.frameList = [i \in 1..Len(fl.written) |-> Sanitize(cfg.ct, fl.written[i])]
        /\ fl.trace[Len(fl.trace)].err = EOF

\* A step that is a call of the low-level Reader's ReadFrame.
LowRead == last'.op = "lowReadFrame" /\ calls' = calls + 1

\* The bytes a step has read from the source of the limited reader.
SourceBytesRead == Len(hr.lo.src) - Len(hr'.lo.src)

\* C32: a low-level ReadFrame call that returns an error does not reset the
\* limited reader's counter: the counter is afterwards what it was before
\* plus the bytes the call has read from the source.
C32_NoResetOnError ==
    [][(LowRead /\ last'.err # ErrNil) =>
          hr'.lo.frameBytes = hr.lo.frameBytes + SourceBytesRead]_vars

\* C33: once the YAML low-level Reader's ReadFrame has returned a frame
\* size overflow, its next ReadFrame call returns a frame size overflow
\* too.
C33_OverflowStays ==
    [][(LowRead /\ cfg.kind = "yamlReader" /\ last.op = "lowReadFrame"
            /\ last.err = FrameSizeOverflowErr) =>
          last'.err = FrameSizeOverflowErr]_vars

\* The frame and the error the single-shot Reader's first ReadFrame returns
\* for a source of the bytes src: all of them, or the first MaxFrameSize
\* with a frame size overflow.
FirstRead(src, srcEnd) ==
    IF Len(src) > MaxFrameSize
    THEN [frame |-> SubSeq(src, 1, MaxFrameSize), err |-> FrameSizeOverflowErr]
    ELSE [frame |-> src, err |-> IF srcEnd = EOF THEN ErrNil ELSE srcEnd]

\* C34: the single-shot Reader reads its source during the first ReadFrame
\* call only, to its end or until MaxFrameSize is exceeded; every later call
\* returns io.EOF and no frame and leaves the source and the limited reader
\* as they were, whatever the first call returned.
C34_ReadOnce ==
    [][(LowRead /\ cfg.kind = "singleReader") =>
          IF hr.lo.calls = 0
          THEN /\ last'.frame = FirstRead(Flatten(stream0), cfg.srcEnd).frame
               /\ last'.err = FirstRead(Flatten(stream0), cfg.srcEnd).err
               /\ hr'.lo.src = SubSeq(Flatten(stream0), MaxFrameSize + 2,
                                      Len(Flatten(stream0)))
          ELSE /\ last'.err = EOF /\ last'.frame = <<>>
               /\ hr'.lo = [hr.lo EXCEPT !.calls = hr.lo.calls + 1]]_vars

\* The first call has overflowed with bytes of the source still unread, and
\* the calls after it have returned io.EOF.
C34_Witness ==
    /\ cfg.kind = "singleReader" /\ last.op = "lowReadFrame"
    /\ hr.lo.calls = MaxLowCalls /\ last.err = EOF
    /\ hr.lo.src # <<>> /\ hr.lo.frameBytes = MaxFrameSize + 1

\* The bytes of the source a Reader was built on.
rawData ==
    IF cfg.ct = ContentTypeYAML THEN yamlRawData(stream0, cfg.lead)
    ELSE Flatten(stream0)

\* The first ReadFrame call made on a Reader, which was open, has returned.
FirstReadFrame ==
    role = "reader" /\ calls = 1 /\ last.op = "ReadFrame" /\ ~last.wasClosed

\* C35 as stated: with MaxFrames = 1 the single-shot reader is built for
\* every framing kind, and the first ReadFrame returns the whole source as
\* one frame.
C35_SingleShotWhenever ==
    (role = "reader" /\ cfg.MaxFrames = 1) =>
        /\ cfg.kind = "singleReader"
        /\ FirstReadFrame => last.err = ErrNil /\ last.frame = rawData

\* C35: the single-shot reader is built when MaxFrames = 1 and the framing
\* kind is neither YAML nor JSON; YAML and JSON get their framing readers
\* whatever MaxFrames is.  The first ReadFrame of a single-shot Reader
\* returns the whole source as one frame when the source holds 1 to
\* MaxFrameSize bytes and ends in io.EOF.
C35_Selection ==
    role = "reader" =>
        /\ cfg.kind = "singleReader" <=>
               (cfg.MaxFrames = 1 /\ cfg.ct \notin {ContentTypeYAML, ContentTypeJSON})
        /\ cfg.ct = ContentTypeYAML => cfg.kind = "yamlReader"
        /\ cfg.ct = ContentTypeJSON => cfg.kind = "streamingReader"
        /\ (/\ cfg.kind = "singleReader" /\ FirstReadFrame
            /\ rawData # <<>> /\ Len(rawData) <= MaxFrameSize
            /\ cfg.srcEnd = EOF) =>
               last.err = ErrNil /\ last.frame = rawData

\* The first ReadFrame of a single-shot Reader has returned a source of two
\* frames as one.
C35_Witness ==
    /\ FirstReadFrame /\ cfg.kind = "singleReader" /\ cfg.MaxFrames = 1
    /\ Len(stream0) = 2 /\ last.err = ErrNil /\ last.frame = Flatten(stream0)

\* A step that is a call of the low-level Writer's WriteFrame, and one that
\* is a call of the high-level Writer's on the open Writer.
LowWrite == last'.op = "lowWriteFrame" /\ calls' = calls + 1
WrappedWrite == last'.op = "WriteFrame" /\ calls' = calls + 1 /\ ~res.closed

\* What a call leaves of the low-level Writer when it does not reach the
\* sink, and when it does not reach the low-level Writer either.
SinkNotReached == hw'.lo = [hw.lo EXCEPT !.calls = hw.lo.calls + 1]
LowWriterNotReached == hw' = hw

\* The single-shot Writer's first WriteFrame hands the frame to the sink as
\* it is, in one Write; every later one returns io.ErrClosedPipe and leaves
\* the sink alone.
SingleWriterWritesOnce ==
    (LowWrite /\ cfg.kind = "singleWriter") =>
        IF hw.lo.calls = 0
        THEN /\ hw'.lo.sinkCalls = 1
             /\ hw'.lo.sink = SubSeq(last'.frame, 1,
                                      Accepted(last'.frame, last'.outs[2]))
             /\ last'.err = catchShortWrite(Accepted(last'.frame, last'.outs[2]),
                                            last'.outs[2].err, last'.frame)
        ELSE last'.err = ErrClosedPipe /\ SinkNotReached

\* The sink of a single-shot Writer has received one Write at most.
SinkWrittenOnce == cfg.kind = "singleWriter" => hw'.lo.sinkCalls <= 1

\* The sink has accepted a frame of the Writer in full.
FrameWritten == hw.lo.fullWrites >= 1

\* C36 as stated: the single-shot Writer writes once, and through the
\* high-level Writer a WriteFrame of a non-empty frame that follows a
\* successful one returns a frame count overflow and does not reach the
\* low-level Writer.
C36_SecondWriteOverflows ==
    [][/\ SingleWriterWritesOnce
       /\ SinkWrittenOnce
       /\ (/\ WrappedWrite /\ cfg.kind = "singleWriter" /\ FrameWritten
           /\ last'.frame # <<>>) =>
              last'.err = FrameCountOverflowErr /\ LowWriterNotReached]_vars

\* C36: the same, for a second frame that is within MaxFrameSize; a larger
\* one is refused with a frame size overflow, and does not reach the
\* low-level Writer either.
C36_WriteOnce ==
    [][/\ SingleWriterWritesOnce
       /\ SinkWrittenOnce
       /\ (/\ WrappedWrite /\ cfg.kind = "singleWriter" /\ FrameWritten
           /\ last'.frame # <<>>) =>
              /\ last'.err = IF Len(last'.frame) > MaxFrameSize
                             THEN FrameSizeOverflowErr
                             ELSE FrameCountOverflowErr
              /\ LowWriterNotReached]_vars

\* The single-shot Writer has written a frame in its first call and has
\* returned io.ErrClosedPipe in every call since.
C36_Witness ==
    /\ cfg.kind = "singleWriter" /\ last.op = "lowWriteFrame"
    /\ hw.lo.calls = MaxLowCalls /\ last.err = ErrClosedPipe
    /\ last.frame # <<>> /\ hw.lo.sinkCalls = 1 /\ hw.lo.sink # <<>>

\* A ReadFrame or WriteFrame call made on the closed resource returns
\* io.ErrClosedPipe.
ReturnsClosed == IsAccessStep /\ res.closed /\ last'.err = ErrClosedPipe

\* C37: a ReadFrame or WriteFrame that returns io.ErrClosedPipe on the closed
\* resource has not called the low-level Reader or Writer, has read nothing
\* from the source and written nothing to the sink, and leaves
\* successfulFrameCount, totalFrameCount and frameCount as they were.
C37_ClosedHasNoEffect ==
    [][ReturnsClosed =>
         /\ hr'.lo.calls = hr.lo.calls /\ hw'.lo.calls = hw.lo.calls
         /\ hr'.lo.src = hr.lo.src /\ hr'.lo.stream = hr.lo.stream
         /\ hr'.lo.hasBeenRead = hr.lo.hasBeenRead
         /\ hw'.lo.sink = hw.lo.sink /\ hw'.lo.sinkCalls = hw.lo.sinkCalls
         /\ hr'.successfulFrameCount = hr.successfulFrameCount
         /\ hr'.totalFrameCount = hr.totalFrameCount
         /\ hw'.frameCount = hw.frameCount
         /\ role = "reader" => last'.frame = <<>>]_vars

\* A Reader closed by the close on error, with frames of its source still
\* unread and fewer than MaxFrames returned, has refused a ReadFrame.
C37_Witness ==
    /\ role = "reader" /\ closeCalls = 0 /\ last.op = "ReadFrame"
    /\ last.wasClosed /\ last.err = ErrClosedPipe
    /\ hr.lo.stream # <<>> /\ hr.successfulFrameCount < cfg.MaxFrames

\* The low-level reads a step has made.
LowReads == hr'.lo.calls - hr.lo.calls

\* C38: a ReadFrame call makes at most 10 * MaxFrames - totalFrameCount
\* low-level reads, each of them counted in totalFrameCount; once
\* ReadFrameList has returned, the low-level Reader has been read at most
\* 10 * MaxFrames times in all and the list holds at most MaxFrames frames.
C38_BoundedSkipping ==
    [][calls' > calls =>
         /\ hr.totalFrameCount <= maxTotalFrames(cfg)
         /\ LowReads = hr'.totalFrameCount - hr.totalFrameCount
         /\ fl' = fl => LowReads <= maxTotalFrames(cfg) - hr.totalFrameCount
         /\ fl' # fl =>
              /\ hr'.lo.calls <= maxTotalFrames(cfg)
              /\ Len(fl'.frameList) <= cfg.MaxFrames]_vars

\* A ReadFrame call made after the low-level Reader had been read has read
\* empty frames until the 10 * MaxFrames reads were used up, and has
\* returned with frames of the source still unread.
C38_Witness ==
    /\ fl = unused /\ last.op = "ReadFrame" /\ calls = 2
    /\ hr.successfulFrameCount = 1 /\ hr.lo.calls = maxTotalFrames(cfg)
    /\ last.err = FrameCountOverflowErr /\ hr.lo.stream # <<>>

\* C39: the mutex is held by the goroutine whose call runs or has run under
\* it and by no one once the calls have returned, and every call that has
\* been made returns: the goroutine leaves c.mux.Lock(), its call runs, the
\* deferred Unlock releases the mutex.
C39_EveryCallReturns ==
    /\ [](\A c \in Callers :
            /\ pc[c].at \in {"held", "done"} <=> mux.holder = c
            /\ pc[c].at = "done" /\ pc[c].op # "Close" /\ res.closed
                    => last.err # ErrNil)
    /\ \A c \in Callers : (pc[c].at = "waiting") ~> (pc[c].at = "idle")

\* A call has failed and has closed the resource under the mutex it still
\* holds, while another goroutine waits for the mutex.
C39_Witness ==
    \E c, d \in Callers :
        /\ pc[c].at = "done" /\ pc[c].op # "Close" /\ mux.holder = c
        /\ res.closed /\ closeCalls = 0 /\ last.err \notin {ErrNil, ErrClosedPipe}
        /\ pc[d].at = "waiting"

\* C40: the frames of the list ReadFrameList returns hold the bytes they
\* held when ReadFrame returned them: no later ReadFrame has changed them.
C40_FramesKeepContent ==
    (fl.op = "ReadFrameList" /\ fl.err = ErrNil) =>
        \A i \in 1..Len(fl.frameList) : fl.frameList[i] = fl.trace[i].frame

====
